---- MODULE Spec2Model ----
(***************************************************************************)
(* Model of media_packer_simple.py: the adaptive torrent configuration     *)
(* (TorrentCreator) and the episode / season analysis                      *)
(* (InteractiveMediaPacker._analyze_episodes, _analyze_episode_ranges).    *)
(*                                                                         *)
(* Conventions                                                             *)
(*  - Optional[int] is a sequence: <<>> is None, <<n>> is the int n.       *)
(*  - Text is a sequence of one-character strings, so that searching,      *)
(*    lower-casing, formatting and parsing are computed, not assumed.      *)
(*  - Content sizes are counted in KiB and memory in MiB: TLC integers are *)
(*    32 bit wide and every threshold of the code is a whole number of     *)
(*    KiB (MiB), so a size of b bytes compares with a threshold exactly as *)
(*    b div 1024 does.  Piece sizes are in bytes.                          *)
(*  - The load average is counted in tenths, so that                       *)
(*    load_avg > physical_cores * 0.8 is load10 > physical_cores * 8.      *)
(***************************************************************************)
EXTENDS Integers, Sequences, FiniteSets, TLC

VARIABLES
    config,         \* Config held by the TorrentCreator
    host,           \* what psutil / multiprocessing report on this host
    content_kib,    \* total size of the content path, in KiB
    generate_api,   \* which signature of torrent.generate() the torf build has
    plan,           \* what create_torrent handed to torf
    video_files,    \* file names handed to _analyze_episodes
    episode_info,   \* result of _analyze_episodes
    media_directories,  \* the configured root directories, as entered
    search_input,   \* what the user answers to the title prompt of scan_files
    fs,             \* the directories on disk: entries in enumeration order
    scan_outcome,   \* how scan_files ended, with the folder list it obtained
    pieces_total,   \* number of pieces of the torrent being hashed
    clock,          \* time.time() as last read, in tenths of a second
    last_update_time,   \* nonlocal of progress_callback
    last_percent,   \* nonlocal of progress_callback
    task_completed, \* completed of the rich progress task, of total=100
    callbacks,      \* the calls of progress_callback so far
    task_queue,     \* InteractiveMediaPacker.task_queue
    output_directory,   \* InteractiveMediaPacker.output_directory, None when not set
    trackers,       \* InteractiveMediaPacker.trackers
    run,            \* where start_processing is: its locals, and how it ended
    media_folders,  \* the folder list _batch_select_folders is called with
    selection,      \* what the user answers to its prompt
    confirmed,      \* what the user answers to its confirmation
    select_outcome, \* how _batch_select_folders ended, with the indices it parsed
    objects,        \* the ProcessingTask objects created so far
    batch_tasks,    \* BatchProcessor.tasks: task id -> object
    batch_task_queue,   \* BatchProcessor.task_queue: the ids put and not yet taken
    batch_is_running,   \* BatchProcessor.is_running
    executor,       \* BatchProcessor.executor: shut down or not, work queued, work running
    queue_threads,  \* the live _process_queue threads by position
    now,            \* int(time.time())
    caller_blocked, \* the caller of stop_processing waits in executor.shutdown
    automation_is_running,  \* AutomationManager.is_running
    is_watching,    \* DirectoryWatcher.is_watching
    watches,        \* the paths scheduled with the observer
    watch_directories,  \* the argument of the start_automation call that started it
    start_calls,    \* number of start_automation calls so far
    created_files,  \* the files and directories created after the start
    pending_files,  \* MediaFileHandler.pending_files: paths with a timer running
    scheduled       \* the paths logged by _schedule_processing

planVars == <<config, host, content_kib, generate_api, plan>>
episodeVars == <<video_files, episode_info>>
scanVars == <<media_directories, search_input, fs, scan_outcome>>
progressVars ==
    <<pieces_total, clock, last_update_time, last_percent, task_completed, callbacks>>
queueVars == <<task_queue, output_directory, trackers, run>>
selectVars == <<media_folders, selection, confirmed, select_outcome>>
batchVars ==
    <<objects, batch_tasks, batch_task_queue, batch_is_running, executor, queue_threads,
      now, caller_blocked>>
watchVars ==
    <<automation_is_running, is_watching, watches, watch_directories, start_calls,
      created_files, pending_files, scheduled>>
automationVars ==
    <<objects, batch_tasks, batch_task_queue, batch_is_running, executor, queue_threads,
      now, caller_blocked,
      automation_is_running, is_watching, watches, watch_directories, start_calls,
      created_files, pending_files, scheduled>>
vars == <<config, host, content_kib, generate_api, plan, video_files, episode_info,
          media_directories, search_input, fs, scan_outcome,
          pieces_total, clock, last_update_time, last_percent, task_completed, callbacks,
          task_queue, output_directory, trackers, run,
          media_folders, selection, confirmed, select_outcome,
          objects, batch_tasks, batch_task_queue, batch_is_running, executor,
          queue_threads, now, caller_blocked,
          automation_is_running, is_watching, watches, watch_directories, start_calls,
          created_files, pending_files, scheduled>>

----------------------------------------------------------------------------
(* Small helpers                                                           *)

Min(a, b) == IF a < b THEN a ELSE b
Max(a, b) == IF a > b THEN a ELSE b

None == <<>>
Some(n) == <<n>>
\* Python truthiness of an Optional[int]: None and 0 are false
Truthy(o) == o # None /\ o[1] # 0

----------------------------------------------------------------------------
(* TorrentCreator                                                          *)

KiB == 1024
MiBk == 1024            \* one MiB, in KiB
GiBk == 1024 * 1024     \* one GiB, in KiB
GiBm == 1024            \* one GiB, in MiB

\* a metric whose read raises
Raises == 0 - 1
\* psutil has no getloadavg on this platform
Unsupported == 0 - 2

\* mutant: the tier boundaries belong to the lower tier (<= for <)
PieceSizeTierInclusive(total_kib) ==
    IF total_kib <= 50 * MiBk THEN 256 * KiB
    ELSE IF total_kib <= 500 * MiBk THEN 1024 * KiB
    ELSE IF total_kib <= 1 * GiBk THEN 2 * 1024 * KiB
    ELSE IF total_kib <= 4 * GiBk THEN 4 * 1024 * KiB
    ELSE IF total_kib <= 16 * GiBk THEN 8 * 1024 * KiB
    ELSE IF total_kib <= 64 * GiBk THEN 16 * 1024 * KiB
    ELSE 8 * 1024 * KiB

\* _get_optimal_piece_size, the tier table (auto_optimize on)
PieceSizeTier(total_kib) ==
    IF total_kib < 50 * MiBk THEN 256 * KiB
    ELSE IF total_kib < 500 * MiBk THEN 1024 * KiB
    ELSE IF total_kib < 1 * GiBk THEN 2 * 1024 * KiB
    ELSE IF total_kib < 4 * GiBk THEN 4 * 1024 * KiB
    ELSE IF total_kib < 16 * GiBk THEN 8 * 1024 * KiB
    ELSE IF total_kib < 64 * GiBk THEN 16 * 1024 * KiB
    ELSE 8 * 1024 * KiB

\* mutant: the table goes on doubling for the largest content
get_optimal_piece_size_doubling(cfg, total_kib) ==
    IF ~cfg.auto_optimize
    THEN (IF Truthy(cfg.piece_size) THEN cfg.piece_size[1] ELSE 0)
    ELSE IF total_kib >= 64 * GiBk THEN 32 * 1024 * KiB
    ELSE PieceSizeTier(total_kib)

get_optimal_piece_size(cfg, total_kib) ==
    IF ~cfg.auto_optimize
    THEN (IF Truthy(cfg.piece_size) THEN cfg.piece_size[1] ELSE 0)
    ELSE PieceSizeTier(total_kib)

\* physical core count: psutil.cpu_count(logical=False) or multiprocessing.cpu_count()
PhysicalCores(h) ==
    IF h.physical = Raises \/ h.physical = 0 THEN h.logical ELSE h.physical

\* load_avg and cpu_percent are read in one try block: if either read raises,
\* both are 0
LoadAvg10(h) ==
    IF h.load10 = Raises \/ h.cpu = Raises THEN 0
    ELSE IF h.load10 = Unsupported THEN 0
    ELSE h.load10

CpuPercent(h) ==
    IF h.load10 = Raises \/ h.cpu = Raises THEN 0 ELSE h.cpu

\* mutant: the low-end tier leaves one core to the system
BaseWorkersSpareCore(physical_cores) ==
    IF physical_cores >= 32 THEN Min(20, physical_cores \div 2)
    ELSE IF physical_cores >= 16 THEN Min(16, physical_cores \div 2 + 2)
    ELSE IF physical_cores >= 10 THEN Min(12, physical_cores + 2)
    ELSE IF physical_cores >= 8 THEN Min(8, physical_cores + 1)
    ELSE IF physical_cores >= 4 THEN physical_cores + 1
    ELSE physical_cores - 1

\* base value from the core-count tier
BaseWorkers(physical_cores) ==
    IF physical_cores >= 32 THEN Min(20, physical_cores \div 2)
    ELSE IF physical_cores >= 16 THEN Min(16, physical_cores \div 2 + 2)
    ELSE IF physical_cores >= 10 THEN Min(12, physical_cores + 2)
    ELSE IF physical_cores >= 8 THEN Min(8, physical_cores + 1)
    ELSE IF physical_cores >= 4 THEN physical_cores + 1
    ELSE Max(3, physical_cores)

\* mutant: the load and the high utilization are looked at before the headroom
LoadAdjustLoadFirst(w, cpu_percent, load10, physical_cores) ==
    IF cpu_percent > 80 \/ load10 > physical_cores * 8 THEN Max(2, w \div 2)
    ELSE IF cpu_percent < 50 THEN Min(w + 2, 16)
    ELSE w

\* utilization / load step
LoadAdjust(w, cpu_percent, load10, physical_cores) ==
    IF cpu_percent < 50 THEN Min(w + 2, 16)
    ELSE IF cpu_percent > 80 \/ load10 > physical_cores * 8 THEN Max(2, w \div 2)
    ELSE w

\* mutant: exactly 32 GiB does not count as plenty of memory
MemoryAdjustAbove32(w, mem_mib) ==
    IF mem_mib = Raises THEN w
    ELSE IF mem_mib < 4 * GiBm THEN Min(w, 4)
    ELSE IF mem_mib > 32 * GiBm THEN Min(w + 4, 20)
    ELSE w

\* memory step; a failing psutil.virtual_memory() leaves the value alone
MemoryAdjust(w, mem_mib) ==
    IF mem_mib = Raises THEN w
    ELSE IF mem_mib < 4 * GiBm THEN Min(w, 4)
    ELSE IF mem_mib >= 32 * GiBm THEN Min(w + 4, 20)
    ELSE w

AutoWorkers(h) ==
    LET cores == PhysicalCores(h)
        w1 == BaseWorkers(cores)
        w2 == LoadAdjust(w1, CpuPercent(h), LoadAvg10(h), cores)
        w3 == MemoryAdjust(w2, h.mem_mib)
    IN  Min(w3, 20)

\* mutant: no default of 1 when the caller supplies no worker count
get_optimal_workers_no_default(cfg, h) ==
    IF ~cfg.auto_optimize
    THEN (IF Truthy(cfg.max_workers) THEN cfg.max_workers[1] ELSE 0)
    ELSE AutoWorkers(h)

\* mutant: the host is consulted whatever auto_optimize says
get_optimal_workers_always_auto(cfg, h) == AutoWorkers(h)

get_optimal_workers(cfg, h) ==
    IF ~cfg.auto_optimize
    THEN (IF Truthy(cfg.max_workers) THEN cfg.max_workers[1] ELSE 1)
    ELSE AutoWorkers(h)

\* torrent.piece_size as create_torrent leaves it: 0 stands for "not set"
TorrentPieceSize(cfg, optimal_piece_size) ==
    IF optimal_piece_size > 0 THEN optimal_piece_size
    ELSE IF Truthy(cfg.piece_size) THEN cfg.piece_size[1]
    ELSE 0

\* the threads argument torrent.generate() finally runs with: the call with
\* callback/interval/threads, on TypeError the call with threads only, on
\* TypeError again the call without arguments
GenerateThreads(api, optimal_workers) ==
    IF api = "callback_threads" THEN Some(optimal_workers)
    ELSE IF api = "threads" THEN Some(optimal_workers)
    ELSE None

NoPlan ==
    [made |-> FALSE, total_kib |-> 0, piece_size |-> 0, workers |-> 0, threads |-> None]

\* create_torrent up to the hand-over to torrent.generate()
create_torrent ==
    /\ LET optimal_piece_size == get_optimal_piece_size(config, content_kib)
           optimal_workers == get_optimal_workers(config, host)
       IN  plan' = [made |-> TRUE,
                    total_kib |-> content_kib,
                    piece_size |-> TorrentPieceSize(config, optimal_piece_size),
                    workers |-> optimal_workers,
                    threads |-> GenerateThreads(generate_api, optimal_workers)]
    /\ UNCHANGED <<config, host, content_kib, generate_api, episodeVars, scanVars,
                   progressVars, queueVars, selectVars, automationVars>>

----------------------------------------------------------------------------
(* Text                                                                    *)

Digits == <<"0", "1", "2", "3", "4", "5", "6", "7", "8", "9">>
UpperCase ==
    <<"A", "B", "C", "D", "E", "F", "G", "H", "I", "J", "K", "L", "M",
      "N", "O", "P", "Q", "R", "S", "T", "U", "V", "W", "X", "Y", "Z">>
LowerCase ==
    <<"a", "b", "c", "d", "e", "f", "g", "h", "i", "j", "k", "l", "m",
      "n", "o", "p", "q", "r", "s", "t", "u", "v", "w", "x", "y", "z">>

\* the CJK characters of the patterns and of the display text, each one
\* character, named by its code point
DI == "U+7B2C"
JI_EPISODE == "U+96C6"
HUA == "U+8BDD"
JI_SEASON == "U+5B63"
QUE == "U+7F3A"

IsDigit(c) == c \in { Digits[i] : i \in 1 .. Len(Digits) }
DigitVal(c) == (CHOOSE i \in 1 .. Len(Digits) : Digits[i] = c) - 1

\* str.lower()
LowerChar(c) ==
    IF c \in { UpperCase[i] : i \in 1 .. Len(UpperCase) }
    THEN LowerCase[CHOOSE i \in 1 .. Len(UpperCase) : UpperCase[i] = c]
    ELSE c
Lower(s) == [i \in 1 .. Len(s) |-> LowerChar(s[i])]

\* int() of a run of decimal digits
RECURSIVE IntOf(_)
IntOf(ds) ==
    IF ds = <<>> THEN 0
    ELSE IntOf(SubSeq(ds, 1, Len(ds) - 1)) * 10 + DigitVal(ds[Len(ds)])

\* str() of a natural number
RECURSIVE DecStr(_)
DecStr(n) ==
    IF n < 10 THEN <<Digits[n + 1]>>
    ELSE DecStr(n \div 10) \o <<Digits[(n % 10) + 1]>>

\* the format spec :02d
Pad02(n) == IF Len(DecStr(n)) < 2 THEN <<"0">> \o DecStr(n) ELSE DecStr(n)

\* sep.join(parts)
RECURSIVE Join(_, _)
Join(parts, sep) ==
    IF parts = <<>> THEN <<>>
    ELSE IF Len(parts) = 1 THEN parts[1]
    ELSE parts[1] \o sep \o Join(Tail(parts), sep)

\* PurePath.suffix and PurePath.stem of a file name
LastDot(name) ==
    IF \E i \in 1 .. Len(name) : name[i] = "."
    THEN CHOOSE i \in 1 .. Len(name) :
            name[i] = "." /\ \A j \in (i + 1) .. Len(name) : name[j] # "."
    ELSE 0
HasSuffix(name) == LastDot(name) > 1 /\ LastDot(name) < Len(name)
Suffix(name) == IF HasSuffix(name) THEN SubSeq(name, LastDot(name), Len(name)) ELSE <<>>
Stem(name) == IF HasSuffix(name) THEN SubSeq(name, 1, LastDot(name) - 1) ELSE name

VIDEO_EXTENSIONS ==
    { <<".", "m", "k", "v">>, <<".", "m", "p", "4">>, <<".", "a", "v", "i">>,
      <<".", "m", "o", "v">>, <<".", "w", "m", "v">>, <<".", "f", "l", "v">>,
      <<".", "w", "e", "b", "m">>, <<".", "m", "4", "v">> }

is_video_file(name) == Lower(Suffix(name)) \in VIDEO_EXTENSIONS

----------------------------------------------------------------------------
(* re.search for the pattern shapes of _analyze_episodes                   *)

\* the literal lit occurs in s at position i
LitAt(s, i, lit) ==
    /\ i + Len(lit) - 1 <= Len(s)
    /\ \A k \in 1 .. Len(lit) : s[i + k - 1] = lit[k]

\* last position of the greedy \d+ that starts at position a (a - 1 if none)
DigitRunEnd(s, a) ==
    IF a > Len(s) \/ ~IsDigit(s[a]) THEN a - 1
    ELSE CHOOSE b \in a .. Len(s) :
            /\ \A k \in a .. b : IsDigit(s[k])
            /\ (b = Len(s) \/ ~IsDigit(s[b + 1]))

\* pre(\d+)post with literal pre and post (post does not start with a digit, so
\* the greedy group cannot give digits back): the match at position i, or None
MatchAt(s, i, pre, post) ==
    LET a == i + Len(pre)
        b == DigitRunEnd(s, a)
    IN  IF LitAt(s, i, pre) /\ b >= a /\ LitAt(s, b + 1, post)
        THEN Some(IntOf(SubSeq(s, a, b)))
        ELSE None

\* [^\d](\d{2,3})(?!\d) at position i: three digits are tried before two
FallbackAt(s, i) ==
    LET try(n) ==
            /\ i + n <= Len(s)
            /\ \A k \in (i + 1) .. (i + n) : IsDigit(s[k])
            /\ (i + n = Len(s) \/ ~IsDigit(s[i + n + 1]))
    IN  IF ~IsDigit(s[i]) /\ try(3) THEN Some(IntOf(SubSeq(s, i + 1, i + 3)))
        ELSE IF ~IsDigit(s[i]) /\ try(2) THEN Some(IntOf(SubSeq(s, i + 1, i + 2)))
        ELSE None

\* the match of one pattern at position i, or None
PatternAt(s, i, pat) ==
    IF pat.kind = "fallback" THEN FallbackAt(s, i)
    ELSE MatchAt(s, i, pat.pre, pat.post)

\* re.search: the match at the leftmost position that has one; group(1) as int
Search(s, pat) ==
    LET P == { i \in 1 .. Len(s) : PatternAt(s, i, pat) # None }
    IN  IF P = {} THEN None
        ELSE PatternAt(s, CHOOSE i \in P : \A j \in P : i <= j, pat)

Lit(pre, post) == [kind |-> "lit", pre |-> pre, post |-> post]

episode_patterns ==
    << Lit(<<"e">>, <<>>),
       Lit(<<"e", "p">>, <<>>),
       Lit(<<DI>>, <<JI_EPISODE>>),
       Lit(<<DI>>, <<HUA>>),
       Lit(<<>>, <<".", "m", "p", "4">>),
       Lit(<<>>, <<".", "m", "k", "v">>),
       [kind |-> "fallback", pre |-> <<>>, post |-> <<>>] >>

season_patterns ==
    << Lit(<<"s">>, <<>>),
       Lit(<<"s", "e", "a", "s", "o", "n">>, <<>>),
       Lit(<<DI>>, <<JI_SEASON>>) >>

\* mutant: no break, the last pattern that matches wins
RECURSIVE FirstMatchNoBreak(_, _, _)
FirstMatchNoBreak(s, patterns, k) ==
    IF k > Len(patterns) THEN None
    ELSE LET later == FirstMatchNoBreak(s, patterns, k + 1)
         IN  IF later # None THEN later ELSE Search(s, patterns[k])

\* for pattern in patterns: match = re.search(...); if match: ...; break
RECURSIVE FirstMatch(_, _, _)
FirstMatch(s, patterns, k) ==
    IF k > Len(patterns) THEN None
    ELSE LET match == Search(s, patterns[k])
         IN  IF match # None THEN match ELSE FirstMatch(s, patterns, k + 1)

\* mutant: the season is looked for only once an episode number was found
ParseFileSeasonUnderEpisode(name) ==
    LET filename == Lower(Stem(name))
        ep == FirstMatch(filename, episode_patterns, 1)
        sn == IF ep = None THEN None ELSE FirstMatch(filename, season_patterns, 1)
    IN  [filename |-> name,
         episode_num |-> ep,
         season_num |-> IF sn = None THEN 1 ELSE sn[1]]

\* the record _analyze_episodes appends for one file
ParseFile(name) ==
    LET filename == Lower(Stem(name))
        ep == FirstMatch(filename, episode_patterns, 1)
        sn == FirstMatch(filename, season_patterns, 1)
    IN  [filename |-> name,
         episode_num |-> ep,
         season_num |-> IF sn = None THEN 1 ELSE sn[1]]

----------------------------------------------------------------------------
(* _analyze_episode_ranges                                                 *)

WU == "U+65E0"

\* sorted(S) for a finite set of integers
RECURSIVE SortedSeq(_)
SortedSeq(S) ==
    IF S = {} THEN <<>>
    ELSE LET m == CHOOSE x \in S : \A y \in S : x <= y
         IN  <<m>> \o SortedSeq(S \ {m})

SeqToSet(q) == { q[i] : i \in 1 .. Len(q) }

\* the dict seasons: its keys, and the list collected under one key
\* (only records whose episode_num is truthy are appended)
SeasonKeys(episodes) == { episodes[i].season_num : i \in 1 .. Len(episodes) }

SeasonList(episodes, season) ==
    LET keep(ep) == ep.season_num = season /\ Truthy(ep.episode_num)
        kept == SelectSeq(episodes, keep)
    IN  [i \in 1 .. Len(kept) |-> kept[i].episode_num[1]]

\* f"E{n:02d}" and f"E{start:02d}-E{end:02d}"
EpisodeToken(n) == <<"E">> \o Pad02(n)
RangeToken(current_start, current_end) ==
    IF current_end > current_start
    THEN EpisodeToken(current_start) \o <<"-">> \o EpisodeToken(current_end)
    ELSE EpisodeToken(current_start)

\* mutant: the gap is listed from the end of the closed range on
MissingTokensFromEnd(lo, hi) ==
    [k \in 1 .. (IF hi > lo - 1 THEN hi - lo + 1 ELSE 0) |-> EpisodeToken(lo + k - 2)]

\* for missing_ep in range(lo, hi): missing.append(f"E{missing_ep:02d}")
MissingTokens(lo, hi) ==
    [k \in 1 .. (IF hi > lo THEN hi - lo ELSE 0) |-> EpisodeToken(lo + k - 1)]

\* mutant: the range that is open when the loop ends is not closed
RECURSIVE RangeLoopLastOpen(_, _, _, _, _, _)
RangeLoopLastOpen(episode_nums, i, current_start, current_end, ranges, missing) ==
    IF i > Len(episode_nums)
    THEN [ranges |-> ranges, missing |-> missing]
    ELSE IF episode_nums[i] = current_end + 1
    THEN RangeLoopLastOpen(episode_nums, i + 1, current_start, episode_nums[i], ranges, missing)
    ELSE RangeLoopLastOpen(episode_nums, i + 1, episode_nums[i], episode_nums[i],
                           Append(ranges, RangeToken(current_start, current_end)),
                           missing \o MissingTokens(current_end + 1, episode_nums[i]))

\* the loop over i in range(1, len(episode_nums)) followed by the closing of
\* the last range; i is the 1-based position of episode_nums[i] of the code
RECURSIVE RangeLoop(_, _, _, _, _, _)
RangeLoop(episode_nums, i, current_start, current_end, ranges, missing) ==
    IF i > Len(episode_nums)
    THEN [ranges |-> Append(ranges, RangeToken(current_start, current_end)),
          missing |-> missing]
    ELSE IF episode_nums[i] = current_end + 1
    THEN RangeLoop(episode_nums, i + 1, current_start, episode_nums[i], ranges, missing)
    ELSE RangeLoop(episode_nums, i + 1, episode_nums[i], episode_nums[i],
                   Append(ranges, RangeToken(current_start, current_end)),
                   missing \o MissingTokens(current_end + 1, episode_nums[i]))

\* ranges and missing of one season, before the season prefix
SeasonRanges(episode_nums) ==
    RangeLoop(episode_nums, 2, episode_nums[1], episode_nums[1], <<>>, <<>>)

\* f"S{season} {r}"
SeasonPrefix(season, tokens) ==
    [i \in 1 .. Len(tokens) |-> <<"S">> \o DecStr(season) \o <<" ">> \o tokens[i]]

\* mutant: the numbers of a season are sorted but not made distinct
RECURSIVE SortedList(_)
SortedList(q) ==
    IF q = <<>> THEN <<>>
    ELSE LET m == CHOOSE i \in 1 .. Len(q) : \A j \in 1 .. Len(q) : q[i] <= q[j]
         IN  <<q[m]>> \o SortedList(SubSeq(q, 1, m - 1) \o SubSeq(q, m + 1, Len(q)))

RECURSIVE SeasonLoopNoDedup(_, _, _, _, _)
SeasonLoopNoDedup(episodes, keys, k, all_ranges, all_missing) ==
    IF k > Len(keys) THEN [ranges |-> all_ranges, missing |-> all_missing]
    ELSE LET season == keys[k]
             episode_nums == SortedList(SeasonList(episodes, season))
         IN  IF episode_nums = <<>>
             THEN SeasonLoopNoDedup(episodes, keys, k + 1, all_ranges, all_missing)
             ELSE LET r == SeasonRanges(episode_nums)
                      many == Cardinality(SeasonKeys(episodes)) > 1
                      ranges == IF many THEN SeasonPrefix(season, r.ranges) ELSE r.ranges
                      missing == IF many THEN SeasonPrefix(season, r.missing) ELSE r.missing
                  IN  SeasonLoopNoDedup(episodes, keys, k + 1,
                                        all_ranges \o ranges, all_missing \o missing)

\* mutant: the prefix is decided by the seasons that have a numbered episode
RECURSIVE SeasonLoopPrefixNumbered(_, _, _, _, _)
SeasonLoopPrefixNumbered(episodes, keys, k, all_ranges, all_missing) ==
    IF k > Len(keys) THEN [ranges |-> all_ranges, missing |-> all_missing]
    ELSE LET season == keys[k]
             episode_nums == SortedSeq(SeqToSet(SeasonList(episodes, season)))
         IN  IF episode_nums = <<>>
             THEN SeasonLoopPrefixNumbered(episodes, keys, k + 1, all_ranges, all_missing)
             ELSE LET r == SeasonRanges(episode_nums)
                      many == Cardinality({ sn \in SeasonKeys(episodes) :
                                              SeasonList(episodes, sn) # <<>> }) > 1
                      ranges == IF many THEN SeasonPrefix(season, r.ranges) ELSE r.ranges
                      missing == IF many THEN SeasonPrefix(season, r.missing) ELSE r.missing
                  IN  SeasonLoopPrefixNumbered(episodes, keys, k + 1,
                                               all_ranges \o ranges, all_missing \o missing)

\* for season in sorted(seasons.keys()): ...
RECURSIVE SeasonLoop(_, _, _, _, _)
SeasonLoop(episodes, keys, k, all_ranges, all_missing) ==
    IF k > Len(keys) THEN [ranges |-> all_ranges, missing |-> all_missing]
    ELSE LET season == keys[k]
             episode_nums == SortedSeq(SeqToSet(SeasonList(episodes, season)))
         IN  IF episode_nums = <<>>
             THEN SeasonLoop(episodes, keys, k + 1, all_ranges, all_missing)
             ELSE LET r == SeasonRanges(episode_nums)
                      many == Cardinality(SeasonKeys(episodes)) > 1
                      ranges == IF many THEN SeasonPrefix(season, r.ranges) ELSE r.ranges
                      missing == IF many THEN SeasonPrefix(season, r.missing) ELSE r.missing
                  IN  SeasonLoop(episodes, keys, k + 1,
                                 all_ranges \o ranges, all_missing \o missing)

\* mutant: the bare count counts the records that carry an episode number
analyze_episode_ranges_numbered_count(episodes) ==
    IF episodes = <<>>
    THEN [ranges |-> <<>>, missing |-> <<>>, display |-> <<WU>>]
    ELSE LET all == SeasonLoop(episodes, SortedSeq(SeasonKeys(episodes)), 1, <<>>, <<>>)
             numbered(ep) == ep.episode_num # None
             display ==
                IF all.ranges # <<>>
                THEN Join(all.ranges, <<",", " ">>) \o
                     (IF all.missing # <<>>
                      THEN <<" ", "(", QUE, ":", " ">> \o Join(all.missing, <<",", " ">>) \o <<")">>
                      ELSE <<>>)
                ELSE DecStr(Len(SelectSeq(episodes, numbered))) \o <<" ", JI_EPISODE>>
         IN  [ranges |-> all.ranges, missing |-> all.missing, display |-> display]

analyze_episode_ranges(episodes) ==
    IF episodes = <<>>
    THEN [ranges |-> <<>>, missing |-> <<>>, display |-> <<WU>>]
    ELSE LET all == SeasonLoop(episodes, SortedSeq(SeasonKeys(episodes)), 1, <<>>, <<>>)
             display ==
                IF all.ranges # <<>>
                THEN Join(all.ranges, <<",", " ">>) \o
                     (IF all.missing # <<>>
                      THEN <<" ", "(", QUE, ":", " ">> \o Join(all.missing, <<",", " ">>) \o <<")">>
                      ELSE <<>>)
                ELSE DecStr(Len(episodes)) \o <<" ", JI_EPISODE>>
         IN  [ranges |-> all.ranges, missing |-> all.missing, display |-> display]

----------------------------------------------------------------------------
(* _analyze_episodes                                                       *)

\* key of episodes.sort: (season_num, episode_num or 999)
SortKeyLE(a, b) ==
    LET ka == IF Truthy(a.episode_num) THEN a.episode_num[1] ELSE 999
        kb == IF Truthy(b.episode_num) THEN b.episode_num[1] ELSE 999
    IN  a.season_num < b.season_num \/ (a.season_num = b.season_num /\ ka <= kb)

\* list.sort is stable: x goes behind every record whose key is <= its own
RECURSIVE InsertSorted(_, _)
InsertSorted(sorted, x) ==
    IF sorted = <<>> THEN <<x>>
    ELSE IF SortKeyLE(sorted[Len(sorted)], x) THEN Append(sorted, x)
    ELSE Append(InsertSorted(SubSeq(sorted, 1, Len(sorted) - 1), x), sorted[Len(sorted)])

RECURSIVE SortEpisodes(_)
SortEpisodes(episodes) ==
    IF episodes = <<>> THEN <<>>
    ELSE InsertSorted(SortEpisodes(SubSeq(episodes, 1, Len(episodes) - 1)),
                      episodes[Len(episodes)])

\* mutant: a file whose name yields no episode number gets no record
analyze_episodes_numbered_only(files) ==
    LET all == [i \in 1 .. Len(files) |-> ParseFile(files[i])]
        numbered(r) == r.episode_num # None
        parsed == SelectSeq(all, numbered)
        episodes == SortEpisodes(parsed)
    IN  [episodes |-> episodes,
         season_count |-> Cardinality(SeasonKeys(parsed)),
         seasons |-> SortedSeq(SeasonKeys(parsed)),
         has_episode_numbers |-> \E i \in 1 .. Len(episodes) : Truthy(episodes[i].episode_num),
         episode_ranges |-> analyze_episode_ranges(episodes),
         total_count |-> Len(episodes)]

analyze_episodes(files) ==
    LET parsed == [i \in 1 .. Len(files) |-> ParseFile(files[i])]
        episodes == SortEpisodes(parsed)
    IN  [episodes |-> episodes,
         season_count |-> Cardinality(SeasonKeys(parsed)),
         seasons |-> SortedSeq(SeasonKeys(parsed)),
         has_episode_numbers |-> \E i \in 1 .. Len(episodes) : Truthy(episodes[i].episode_num),
         episode_ranges |-> analyze_episode_ranges(episodes),
         total_count |-> Len(episodes)]

\* the call self._analyze_episodes(video_files) of _scan_media_folders
AnalyzeEpisodes ==
    /\ episode_info' = <<analyze_episodes(video_files)>>
    /\ UNCHANGED <<video_files, planVars, scanVars, progressVars, queueVars, selectVars, automationVars>>

----------------------------------------------------------------------------
(* scan_files and _scan_media_folders                                      *)
(*                                                                         *)
(* A directory on disk is a record [readable, listing]: iterdir() raises   *)
(* when it is not readable and otherwise yields the children in the order  *)
(* of listing.  A child is [name, is_dir, walk_raises, entries]: entries   *)
(* is what item.rglob("*") yields, each [name, is_file, size_kib], and     *)
(* walk_raises says that the walk ends in a PermissionError / OSError.     *)

\* str.strip() of the prompt answer
RECURSIVE Strip(_)
Strip(s) ==
    IF s = <<>> THEN s
    ELSE IF s[1] = " " THEN Strip(Tail(s))
    ELSE IF s[Len(s)] = " " THEN Strip(SubSeq(s, 1, Len(s) - 1))
    ELSE s

\* needle in hay (str.__contains__)
Contains(hay, needle) == \E i \in 1 .. (Len(hay) + 1) : LitAt(hay, i, needle)

\* a character of the class [\w\u4e00-\u9fff]
IsWordChar(c) ==
    \/ IsDigit(c)
    \/ c \in { UpperCase[i] : i \in 1 .. Len(UpperCase) }
    \/ c \in { LowerCase[i] : i \in 1 .. Len(LowerCase) }
    \/ c \in {"_", DI, JI_EPISODE, HUA, JI_SEASON, QUE, WU}

\* re.findall(r'[\w\u4e00-\u9fff]+', s): the maximal runs of word characters
WordTokens(s) ==
    { SubSeq(s, w[1], w[2]) : w \in { v \in (1 .. Len(s)) \X (1 .. Len(s)) :
        /\ v[1] <= v[2]
        /\ \A k \in v[1] .. v[2] : IsWordChar(s[k])
        /\ (v[1] = 1 \/ ~IsWordChar(s[v[1] - 1]))
        /\ (v[2] = Len(s) \/ ~IsWordChar(s[v[2] + 1])) } }

\* mutant: every word of the term has to occur in the folder name
search_matches_all_words(search_term, folder_name) ==
    LET search_lower == Lower(search_term)
        folder_lower == Lower(folder_name)
        direct_match == Contains(folder_lower, search_lower)
        search_words == WordTokens(search_lower)
        word_match == /\ search_words # {}
                      /\ \A word \in search_words : Contains(folder_lower, word)
    IN  direct_match \/ word_match

\* the fuzzy match of a folder name against a non-empty search term
search_matches(search_term, folder_name) ==
    LET search_lower == Lower(search_term)
        folder_lower == Lower(folder_name)
        direct_match == Contains(folder_lower, search_lower)
        search_words == WordTokens(search_lower)
        word_match == /\ search_words # {}
                      /\ \E word \in search_words : Contains(folder_lower, word)
    IN  direct_match \/ word_match

\* the characters of the model in code point order, for the comparison of str
CodeOrder ==
    <<" ", "-", ".", "/">> \o Digits \o UpperCase \o <<"_">> \o LowerCase \o
    <<JI_SEASON, WU, DI, QUE, HUA, JI_EPISODE>>
CodePoint(c) == CHOOSE i \in 1 .. Len(CodeOrder) : CodeOrder[i] = c

\* a < b and a <= b of str
RECURSIVE StrLess(_, _)
StrLess(a, b) ==
    IF b = <<>> THEN FALSE
    ELSE IF a = <<>> THEN TRUE
    ELSE IF a[1] # b[1] THEN CodePoint(a[1]) < CodePoint(b[1])
    ELSE StrLess(Tail(a), Tail(b))
StrLE(a, b) == a = b \/ StrLess(a, b)

\* Path(directory): a trailing slash is not part of the path
PathOf(directory) ==
    IF Len(directory) > 1 /\ directory[Len(directory)] = "/"
    THEN SubSeq(directory, 1, Len(directory) - 1)
    ELSE directory

\* the directory a path leads to: "/a" and "/x/../a" lead to the same one,
\* "/b" to another, any other path to none
DirAt(path) ==
    IF path \in { <<"/", "a">>, <<"/", "x", "/", ".", ".", "/", "a">> } THEN "a"
    ELSE IF path = <<"/", "b">> THEN "b"
    ELSE "none"

RECURSIVE SumSizes(_)
SumSizes(files) ==
    IF files = <<>> THEN 0 ELSE files[1].size_kib + SumSizes(Tail(files))

\* the video files item.rglob("*") yields
WalkVideoFiles(child) ==
    LET keep(e) == e.is_file /\ is_video_file(e.name)
    IN  SelectSeq(child.entries, keep)

\* what the loop records of one child directory: name, path, the video files
\* found, their number and their total size
FolderStats(item, child) ==
    LET found == WalkVideoFiles(child)
    IN  [name |-> child.name,
         path |-> item,
         video_files |-> [i \in 1 .. Len(found) |-> found[i].name],
         episode_count |-> Len(found),
         total_size |-> SumSizes(found)]

\* the folder_info dict: the above with the episode analysis of the video
\* files.  _analyze_episodes reads nothing but the file list, so the analysis
\* is applied to the folders once the loops have collected them.
FolderInfo(stats) ==
    [name |-> stats.name,
     path |-> stats.path,
     video_files |-> stats.video_files,
     episode_count |-> stats.episode_count,
     total_size |-> stats.total_size,
     episode_info |-> analyze_episodes(stats.video_files)]

AnalyzeFolders(folders) == [i \in 1 .. Len(folders) |-> FolderInfo(folders[i])]

\* for item in dir_path.iterdir(): ...; acc is [media_folders, processed_folders]
RECURSIVE ScanChildren(_, _, _, _, _)
ScanChildren(dir_path, listing, k, search_term, acc) ==
    IF k > Len(listing) THEN acc
    ELSE
        LET child == listing[k]
            item == dir_path \o <<"/">> \o child.name
            seen == [acc EXCEPT !.processed_folders = @ \cup {item}]
        IN  IF ~child.is_dir \/ item \in acc.processed_folders
            THEN ScanChildren(dir_path, listing, k + 1, search_term, acc)
            ELSE IF child.walk_raises
            THEN ScanChildren(dir_path, listing, k + 1, search_term, seen)
            ELSE IF WalkVideoFiles(child) = <<>>
            THEN ScanChildren(dir_path, listing, k + 1, search_term, seen)
            ELSE IF search_term # <<>> /\ ~search_matches(search_term, child.name)
            THEN ScanChildren(dir_path, listing, k + 1, search_term, seen)
            ELSE ScanChildren(dir_path, listing, k + 1, search_term,
                    [seen EXCEPT !.media_folders = Append(@, FolderStats(item, child))])

\* for directory in self.media_directories: ...; an exception of iterdir()
\* ends the loop and leaves the function
RECURSIVE ScanRoots(_, _, _, _, _)
ScanRoots(disk, directories, r, search_term, acc) ==
    IF r > Len(directories) THEN [raised |-> FALSE, media_folders |-> acc.media_folders]
    ELSE
        LET dir_path == PathOf(directories[r])
            dir == DirAt(dir_path)
        IN  IF dir = "none"
            THEN ScanRoots(disk, directories, r + 1, search_term, acc)
            ELSE IF ~disk[dir].readable
            THEN [raised |-> TRUE, media_folders |-> <<>>]
            ELSE ScanRoots(disk, directories, r + 1, search_term,
                    ScanChildren(dir_path, disk[dir].listing, 1, search_term, acc))

\* mutant: the folders are ordered by their name as it is written
RECURSIVE SortFoldersCaseSensitive(_)
SortFoldersCaseSensitive(folders) ==
    IF folders = <<>> THEN <<>>
    ELSE LET rest == SortFoldersCaseSensitive(SubSeq(folders, 1, Len(folders) - 1))
             x == folders[Len(folders)]
             before == { i \in 1 .. Len(rest) : StrLE(rest[i].name, x.name) }
             n == IF before = {} THEN 0 ELSE CHOOSE i \in before : \A j \in before : j <= i
         IN  SubSeq(rest, 1, n) \o <<x>> \o SubSeq(rest, n + 1, Len(rest))

\* media_folders.sort(key=lambda x: x['name'].lower()); the sort is stable: a
\* folder goes behind the last one whose key is <= its own
RECURSIVE SortFolders(_)
SortFolders(folders) ==
    IF folders = <<>> THEN <<>>
    ELSE LET rest == SortFolders(SubSeq(folders, 1, Len(folders) - 1))
             x == folders[Len(folders)]
             before == { i \in 1 .. Len(rest) : StrLE(Lower(rest[i].name), Lower(x.name)) }
             n == IF before = {} THEN 0 ELSE CHOOSE i \in before : \A j \in before : j <= i
         IN  SubSeq(rest, 1, n) \o <<x>> \o SubSeq(rest, n + 1, Len(rest))

\* mutant: the list is returned in the order the folders were found
scan_media_folders_unsorted(disk, directories, search_term) ==
    LET found == ScanRoots(disk, directories, 1, search_term,
                           [media_folders |-> <<>>, processed_folders |-> {}])
    IN  [raised |-> found.raised, media_folders |-> AnalyzeFolders(found.media_folders)]

scan_media_folders(disk, directories, search_term) ==
    LET found == ScanRoots(disk, directories, 1, search_term,
                           [media_folders |-> <<>>, processed_folders |-> {}])
    IN  [raised |-> found.raised,
         media_folders |-> AnalyzeFolders(SortFolders(found.media_folders))]

NotScanned == [status |-> "idle", media_folders |-> <<>>]

\* scan_files: refuses without a media directory, otherwise prompts for the
\* title, scans, and shows the folders
scan_files ==
    /\ IF media_directories = <<>>
       THEN scan_outcome' = [status |-> "no_directories", media_folders |-> <<>>]
       ELSE LET search_term == Strip(search_input)
                scanned == scan_media_folders(fs, media_directories, search_term)
            IN  scan_outcome' =
                    [status |-> IF scanned.raised THEN "raised" ELSE "scanned",
                     media_folders |-> scanned.media_folders]
    /\ UNCHANGED <<media_directories, search_input, fs, planVars, episodeVars,
                   progressVars, queueVars, selectVars, automationVars>>

InitScanIdle ==
    /\ media_directories = <<>>
    /\ search_input = <<>>
    /\ fs = [a |-> [readable |-> TRUE, listing |-> <<>>],
             b |-> [readable |-> TRUE, listing |-> <<>>]]
    /\ scan_outcome = NotScanned

----------------------------------------------------------------------------
(* progress_callback of create_torrent                                     *)
(*                                                                         *)
(* Times are in tenths of a second.  percent = pieces_done / pieces_total  *)
(* * 100 is kept as the integer pieces_done * 100, that is in units of     *)
(* 1 / pieces_total percent: 100% is pieces_total * 100.  Floating point   *)
(* division and multiplication are monotone and n / n * 100 is 100.0; the  *)
(* only comparison rounding can decide is abs(percent - last_percent) >=   *)
(* 1.0 when the exact difference is 1, and there both outcomes are kept.   *)
(* torf refuses empty content, so pieces_total is at least 1.              *)

Abs(x) == IF x < 0 THEN 0 - x ELSE x

Percent(pieces_done) == pieces_done * 100

\* abs(percent - last_percent) >= 1.0
NoticeableChange(percent, last, total) ==
    IF Abs(percent - last) > total THEN {TRUE}
    ELSE IF Abs(percent - last) < total THEN {FALSE}
    ELSE BOOLEAN

\* mutant: the last callback is held back like any other
RateLimitedAlways(current_time, last_time, pieces_done, total) ==
    current_time - last_time < 10

\* if current_time - last_update_time < 1.0 and pieces_done < pieces_total: return
RateLimited(current_time, last_time, pieces_done, total) ==
    current_time - last_time < 10 /\ pieces_done < total

\* what a call leaves in the record of calls
Call(current_time, pieces_done, accepted, shown) ==
    [time |-> current_time, pieces_done |-> pieces_done, accepted |-> accepted,
     shown |-> shown]

\* one call of progress_callback(torrent, filepath, pieces_done, pieces_total)
\* by torrent.generate(), the clock reading current_time
progress_callback(current_time, pieces_done) ==
    /\ clock' = current_time
    /\ IF RateLimited(current_time, last_update_time, pieces_done, pieces_total)
       THEN /\ UNCHANGED <<last_update_time, last_percent, task_completed>>
            /\ callbacks' =
                  Append(callbacks, Call(current_time, pieces_done, FALSE, task_completed))
       ELSE /\ last_update_time' = current_time
            /\ \E noticeable \in NoticeableChange(Percent(pieces_done), last_percent,
                                                  pieces_total) :
                  IF pieces_total > 0 /\ (noticeable \/ pieces_done = pieces_total)
                  THEN /\ task_completed' = Percent(pieces_done)
                       /\ last_percent' = Percent(pieces_done)
                  ELSE UNCHANGED <<last_percent, task_completed>>
            /\ callbacks' =
                  Append(callbacks, Call(current_time, pieces_done, TRUE, task_completed'))
    /\ UNCHANGED <<pieces_total, planVars, episodeVars, scanVars, queueVars, selectVars,
                   automationVars>>

InitProgressIdle ==
    /\ pieces_total = 1
    /\ clock = 0
    /\ last_update_time = 0
    /\ last_percent = 0
    /\ task_completed = 0
    /\ callbacks = <<>>

----------------------------------------------------------------------------
(* The processing queue of the interactive packer                          *)
(*                                                                         *)
(* A task is the dict _add_folder_to_queue appends, with the keys          *)
(* start_processing adds to it.  pending_tasks holds references to the     *)
(* dicts of task_queue: it is kept as the list of their positions.  The    *)
(* menu is single-threaded: nothing else touches the queue while           *)
(* start_processing runs.                                                  *)

NoRun ==
    [pc |-> "idle", pending_tasks |-> <<>>, k |-> 0,
     success_count |-> 0, error_count |-> 0, before |-> <<>>]

\* the dict _add_folder_to_queue appends; torrent_path and error_message are
\* the keys start_processing adds later
PendingTask(folder) ==
    [file_path |-> folder, status |-> "pending",
     torrent_path |-> None, error_message |-> None]

\* _add_folder_to_queue(folder)
add_folder_to_queue(folder) ==
    /\ run.pc # "loop" /\ run.pc # "raised"
    /\ task_queue' = Append(task_queue, PendingTask(folder))
    /\ UNCHANGED <<output_directory, trackers, run>>
    /\ UNCHANGED <<planVars, episodeVars, scanVars, progressVars, selectVars,
                   automationVars>>

\* pending_tasks = [t for t in self.task_queue if t['status'] == 'pending']
RECURSIVE PendingFrom(_, _)
PendingFrom(queue, i) ==
    IF i > Len(queue) THEN <<>>
    ELSE IF queue[i].status = "pending" THEN <<i>> \o PendingFrom(queue, i + 1)
    ELSE PendingFrom(queue, i + 1)

\* mutant: the tasks are taken from the end of the queue
RECURSIVE PendingTasksReversed(_)
PendingTasksReversed(queue) ==
    IF queue = <<>> THEN <<>>
    ELSE IF queue[Len(queue)].status = "pending"
    THEN <<Len(queue)>> \o PendingTasksReversed(SubSeq(queue, 1, Len(queue) - 1))
    ELSE PendingTasksReversed(SubSeq(queue, 1, Len(queue) - 1))

PendingTasks(queue) == PendingFrom(queue, 1)

\* start_processing up to the loop: the checks, the list of pending tasks,
\* and MediaPacker(config), which creates the output directory and raises
\* when it cannot
start_processing(mkdir_ok) ==
    /\ run.pc # "loop" /\ run.pc # "raised"
    /\ LET pending_tasks == PendingTasks(task_queue)
           started == [NoRun EXCEPT !.before = task_queue]
       IN  IF task_queue = <<>> \/ output_directory = None \/ trackers = <<>>
              \/ pending_tasks = <<>>
           THEN run' = [started EXCEPT !.pc = "refused"]
           ELSE IF ~mkdir_ok
           THEN run' = [started EXCEPT !.pc = "raised"]
           ELSE run' = [started EXCEPT !.pc = "loop", !.pending_tasks = pending_tasks,
                                       !.k = 1]
    /\ UNCHANGED <<task_queue, output_directory, trackers>>
    /\ UNCHANGED <<planVars, episodeVars, scanVars, progressVars, selectVars,
                   automationVars>>

\* for task in pending_tasks: task['status'] = 'processing'
BeginTask ==
    /\ run.pc = "loop" /\ run.k <= Len(run.pending_tasks)
    /\ task_queue[run.pending_tasks[run.k]].status # "processing"
    /\ task_queue' = [task_queue EXCEPT ![run.pending_tasks[run.k]].status = "processing"]
    /\ UNCHANGED <<output_directory, trackers, run>>
    /\ UNCHANGED <<planVars, episodeVars, scanVars, progressVars, selectVars,
                   automationVars>>

\* the rest of the loop body: create_torrent_for_file returns the torrent
\* path, or an Exception is caught
FinishTask(created) ==
    /\ run.pc = "loop" /\ run.k <= Len(run.pending_tasks)
    /\ task_queue[run.pending_tasks[run.k]].status = "processing"
    /\ LET i == run.pending_tasks[run.k]
       IN  IF created
           THEN /\ task_queue' = [task_queue EXCEPT ![i].status = "completed",
                                                    ![i].torrent_path = Some(i)]
                /\ run' = [run EXCEPT !.k = @ + 1, !.success_count = @ + 1]
           ELSE /\ task_queue' = [task_queue EXCEPT ![i].status = "error",
                                                    ![i].error_message = Some(i)]
                /\ run' = [run EXCEPT !.k = @ + 1, !.error_count = @ + 1]
    /\ UNCHANGED <<output_directory, trackers>>
    /\ UNCHANGED <<planVars, episodeVars, scanVars, progressVars, selectVars,
                   automationVars>>

\* the loop is over: the result panel is shown and start_processing returns
ReturnFromProcessing ==
    /\ run.pc = "loop" /\ run.k > Len(run.pending_tasks)
    /\ run' = [run EXCEPT !.pc = "returned"]
    /\ UNCHANGED <<task_queue, output_directory, trackers>>
    /\ UNCHANGED <<planVars, episodeVars, scanVars, progressVars, selectVars,
                   automationVars>>

InitQueueIdle ==
    /\ task_queue = <<>>
    /\ output_directory = None
    /\ trackers = <<>>
    /\ run = NoRun

----------------------------------------------------------------------------
(* _batch_select_folders and _parse_selection                              *)
(*                                                                         *)
(* An index list is a sequence of integers; list positions of Python start *)
(* at 0 and a negative position counts from the end.                       *)

\* s.split(sep), sep one character
RECURSIVE Split(_, _)
Split(s, sep) ==
    IF \A i \in 1 .. Len(s) : s[i] # sep THEN <<s>>
    ELSE LET at == CHOOSE i \in 1 .. Len(s) : s[i] = sep /\ \A j \in 1 .. (i - 1) : s[j] # sep
         IN  <<SubSeq(s, 1, at - 1)>> \o Split(SubSeq(s, at + 1, Len(s)), sep)

\* int(text): None stands for ValueError.  int() ignores blanks around the
\* digits
ParseInt(text) ==
    LET digits == Strip(text)
    IN  IF digits # <<>> /\ \A i \in 1 .. Len(digits) : IsDigit(digits[i])
        THEN Some(IntOf(digits))
        ELSE None

\* range(a, b) as a list
Range(a, b) == [i \in 1 .. (IF b > a THEN b - a ELSE 0) |-> a + i - 1]

\* start, end = map(int, part.split('-'));
\* range(start-1, min(end, max_count)).  None stands for ValueError, Some(l)
\* for the list l
RangePart(part, max_count) ==
    LET bounds == Split(part, "-")
    IN  IF Len(bounds) # 2 \/ ParseInt(bounds[1]) = None \/ ParseInt(bounds[2]) = None
        THEN None
        ELSE Some(Range(ParseInt(bounds[1])[1] - 1,
                        Min(ParseInt(bounds[2])[1], max_count)))

\* num = int(part); if 1 <= num <= max_count: indices.append(num-1)
SinglePart(part, max_count) ==
    LET num == ParseInt(part)
    IN  IF num = None THEN None
        ELSE IF 1 <= num[1] /\ num[1] <= max_count THEN Some(<<num[1] - 1>>)
        ELSE Some(<<>>)

\* for part in parts: ...; None as soon as a part raises ValueError
RECURSIVE PartsLoop(_, _, _, _)
PartsLoop(parts, k, max_count, indices) ==
    IF k > Len(parts) THEN Some(indices)
    ELSE LET part == Strip(parts[k])
             found == IF \E i \in 1 .. Len(part) : part[i] = "-"
                      THEN RangePart(part, max_count)
                      ELSE SinglePart(part, max_count)
         IN  IF found = None THEN None
             ELSE PartsLoop(parts, k + 1, max_count, indices \o found[1])

\* _parse_selection(selection, max_count): sorted(list(set(indices))), and []
\* on ValueError
parse_selection(text, max_count) ==
    LET indices == PartsLoop(Split(text, ","), 1, max_count, <<>>)
    IN  IF indices = None THEN <<>> ELSE SortedSeq(SeqToSet(indices[1]))

\* media_folders[i]: None stands for IndexError
PyIndex(list, i) ==
    IF 0 <= i /\ i < Len(list) THEN Some(list[i + 1])
    ELSE IF i < 0 /\ 0 - i <= Len(list) THEN Some(list[Len(list) + i + 1])
    ELSE None

NotSelected == [status |-> "idle", selected_indices |-> <<>>, selected_folders |-> <<>>]

\* _batch_select_folders(media_folders)
batch_select_folders ==
    /\ select_outcome.status = "idle"
    /\ IF Strip(selection) = <<>>
       THEN /\ select_outcome' = [NotSelected EXCEPT !.status = "no_input"]
            /\ UNCHANGED task_queue
       ELSE LET selected_indices == parse_selection(selection, Len(media_folders))
                looked_up == [k \in 1 .. Len(selected_indices) |->
                                 PyIndex(media_folders, selected_indices[k])]
                selected_folders == [k \in 1 .. Len(selected_indices) |-> looked_up[k][1]]
                outcome == [NotSelected EXCEPT !.selected_indices = selected_indices]
            IN  IF selected_indices = <<>>
                THEN /\ select_outcome' = [outcome EXCEPT !.status = "invalid"]
                     /\ UNCHANGED task_queue
                ELSE IF \E k \in 1 .. Len(selected_indices) : looked_up[k] = None
                THEN /\ select_outcome' = [outcome EXCEPT !.status = "raised"]
                     /\ UNCHANGED task_queue
                ELSE IF ~confirmed
                THEN /\ select_outcome' = [outcome EXCEPT !.status = "declined",
                                                         !.selected_folders = selected_folders]
                     /\ UNCHANGED task_queue
                ELSE /\ select_outcome' = [outcome EXCEPT !.status = "added",
                                                         !.selected_folders = selected_folders]
                     /\ task_queue' = task_queue \o
                           [k \in 1 .. Len(selected_folders) |->
                               PendingTask(selected_folders[k])]
    /\ UNCHANGED <<media_folders, selection, confirmed, output_directory, trackers, run>>
    /\ UNCHANGED <<planVars, episodeVars, scanVars, progressVars, automationVars>>

InitSelectIdle ==
    /\ media_folders = <<>>
    /\ selection = <<>>
    /\ confirmed = FALSE
    /\ select_outcome = NotSelected

----------------------------------------------------------------------------
(* BatchProcessor (media_packer/core/automation.py)                        *)
(*                                                                         *)
(* objects holds every ProcessingTask ever created, in creation order; the *)
(* task table and the work of the executor refer to them by position, as   *)
(* the code refers to them by reference.  A task id is the pair of the     *)
(* file name and the second of its creation, f"{name}_{int(time.time())}". *)
(* starts counts how often _process_single_task began on the object.       *)

OtherThanAutomation ==
    <<planVars, episodeVars, scanVars, progressVars, queueVars, selectVars>>

TaskId(file_name, second) == <<file_name, second>>

NewTask(task_id) == [id |-> task_id, status |-> "PENDING", starts |-> 0]

\* self.tasks[task_id] = task
PutTask(table, task_id, object) ==
    [i \in (DOMAIN table) \cup {task_id} |-> IF i = task_id THEN object ELSE table[i]]

\* add_task(file_path): a new object, entered in the table under its id, the
\* id put on the queue
batch_add_task(file_name) ==
    LET task_id == TaskId(file_name, now)
    IN  /\ objects' = Append(objects, NewTask(task_id))
        /\ batch_tasks' = PutTask(batch_tasks, task_id, Len(objects) + 1)
        /\ batch_task_queue' = Append(batch_task_queue, task_id)

\* BatchProcessor.start_processing: nothing when running, else the flag is
\* set and a _process_queue thread is started
batch_start_processing_effect ==
    IF batch_is_running
    THEN UNCHANGED <<batch_is_running, queue_threads>>
    ELSE /\ batch_is_running' = TRUE
         /\ queue_threads' = [queue_threads EXCEPT !.check = @ + 1]

\* time.time() moves on to the next second
Tick ==
    /\ now' = now + 1
    /\ UNCHANGED <<objects, batch_tasks, batch_task_queue, batch_is_running, executor,
                   queue_threads, caller_blocked>>
    /\ UNCHANGED <<watchVars, OtherThanAutomation>>

add_task(file_name) ==
    /\ ~caller_blocked
    /\ batch_add_task(file_name)
    /\ UNCHANGED <<batch_is_running, executor, queue_threads, now, caller_blocked>>
    /\ UNCHANGED <<watchVars, OtherThanAutomation>>

batch_start_processing ==
    /\ ~caller_blocked
    /\ batch_start_processing_effect
    /\ UNCHANGED <<objects, batch_tasks, batch_task_queue, executor, now, caller_blocked>>
    /\ UNCHANGED <<watchVars, OtherThanAutomation>>

\* stop_processing: the flag is cleared and executor.shutdown(wait=True) is
\* entered; the caller waits there for the work to end
batch_stop_processing ==
    /\ ~caller_blocked
    /\ batch_is_running' = FALSE
    /\ executor' = [executor EXCEPT !.shutdown = TRUE]
    /\ caller_blocked' = TRUE
    /\ UNCHANGED <<objects, batch_tasks, batch_task_queue, queue_threads, now>>
    /\ UNCHANGED <<watchVars, OtherThanAutomation>>

\* executor.shutdown(wait=True) returns: no work is queued or running
ShutdownReturns ==
    /\ caller_blocked
    /\ executor.work = <<>> /\ executor.running = <<>>
    /\ caller_blocked' = FALSE
    /\ UNCHANGED <<objects, batch_tasks, batch_task_queue, batch_is_running, executor,
                   queue_threads, now>>
    /\ UNCHANGED <<watchVars, OtherThanAutomation>>

\* _process_queue: while self.is_running
ProcessQueueCheck ==
    /\ queue_threads.check > 0
    /\ IF batch_is_running
       THEN queue_threads' = [check |-> queue_threads.check - 1,
                              get |-> queue_threads.get + 1]
       ELSE queue_threads' = [queue_threads EXCEPT !.check = @ - 1]
    /\ UNCHANGED <<objects, batch_tasks, batch_task_queue, batch_is_running, executor,
                   now, caller_blocked>>
    /\ UNCHANGED <<watchVars, OtherThanAutomation>>

\* self.executor.submit(self._process_single_task, task): RuntimeError once
\* the executor was shut down, caught and logged by _process_queue
Submit(pool, object) ==
    IF pool.shutdown THEN pool ELSE [pool EXCEPT !.work = Append(@, object)]

\* _process_queue: task_id = self.task_queue.get(timeout=1.0) yields an id;
\* the task is looked up and submitted
ProcessQueueGet ==
    /\ queue_threads.get > 0
    /\ batch_task_queue # <<>>
    /\ LET task_id == Head(batch_task_queue)
       IN  /\ batch_task_queue' = Tail(batch_task_queue)
           /\ executor' = Submit(executor, batch_tasks[task_id])
    /\ queue_threads' = [check |-> queue_threads.check + 1, get |-> queue_threads.get - 1]
    /\ UNCHANGED <<objects, batch_tasks, batch_is_running, now, caller_blocked>>
    /\ UNCHANGED <<watchVars, OtherThanAutomation>>

\* _process_queue: the get times out on the empty queue (except Empty: continue)
ProcessQueueTimeout ==
    /\ queue_threads.get > 0
    /\ batch_task_queue = <<>>
    /\ queue_threads' = [check |-> queue_threads.check + 1, get |-> queue_threads.get - 1]
    /\ UNCHANGED <<objects, batch_tasks, batch_task_queue, batch_is_running, executor,
                   now, caller_blocked>>
    /\ UNCHANGED <<watchVars, OtherThanAutomation>>

\* BatchProcessor(config): max_workers: int = 4
max_workers == 4

\* a pool thread begins _process_single_task(task): task.status = PROCESSING
WorkerBegins ==
    /\ executor.work # <<>>
    /\ Len(executor.running) < max_workers
    /\ LET object == Head(executor.work)
       IN  /\ objects' = [objects EXCEPT ![object].status = "PROCESSING",
                                         ![object].starts = @ + 1]
           /\ executor' = [executor EXCEPT !.work = Tail(@),
                                           !.running = Append(@, object)]
    /\ UNCHANGED <<batch_tasks, batch_task_queue, batch_is_running, queue_threads, now,
                   caller_blocked>>
    /\ UNCHANGED <<watchVars, OtherThanAutomation>>

\* _process_single_task ends: COMPLETED, or ERROR when an Exception was caught
WorkerEnds(k, succeeded) ==
    /\ k \in 1 .. Len(executor.running)
    /\ LET object == executor.running[k]
       IN  objects' = [objects EXCEPT ![object].status =
                          IF succeeded THEN "COMPLETED" ELSE "ERROR"]
    /\ executor' = [executor EXCEPT !.running =
                       SubSeq(@, 1, k - 1) \o SubSeq(@, k + 1, Len(@))]
    /\ UNCHANGED <<batch_tasks, batch_task_queue, batch_is_running, queue_threads, now,
                   caller_blocked>>
    /\ UNCHANGED <<watchVars, OtherThanAutomation>>

InitBatchIdle ==
    /\ objects = <<>>
    /\ batch_tasks = <<>>
    /\ batch_task_queue = <<>>
    /\ batch_is_running = FALSE
    /\ executor = [shutdown |-> FALSE, work |-> <<>>, running |-> <<>>]
    /\ queue_threads = [check |-> 0, get |-> 0]
    /\ now = 0
    /\ caller_blocked = FALSE

----------------------------------------------------------------------------
(* DirectoryWatcher, MediaFileHandler, AutomationManager                   *)
(*                                                                         *)
(* The observer of the watchdog library delivers an event for every path   *)
(* created below a scheduled directory (recursive=True).                   *)

DirW1 == <<"/", "w", "1">>
DirW2 == <<"/", "w", "2">>
DirSub == <<"/", "w", "1", "/", "s">>
DirMissing == <<"/", "n", "x">>

\* watch_dir.exists() and watch_dir.is_dir()
ExistingDirectories == {DirW1, DirW2, DirSub}

Under(directory, path) ==
    /\ Len(directory) < Len(path)
    /\ SubSeq(path, 1, Len(directory)) = directory
    /\ path[Len(directory) + 1] = "/"

JoinPath(directory, name) == directory \o <<"/">> \o name

\* DirectoryWatcher.start_watching(watch_path)
start_watching(watcher, watch_path) ==
    IF watcher.is_watching
    THEN watcher
    ELSE [is_watching |-> TRUE, watches |-> watcher.watches \cup {watch_path}]

\* for watch_dir in watch_directories: if it exists and is a directory:
\* start_watching(watch_dir)
RECURSIVE WatchLoop(_, _, _)
WatchLoop(watcher, directories, i) ==
    IF i > Len(directories)
    THEN watcher
    ELSE WatchLoop(IF directories[i] \in ExistingDirectories
                   THEN start_watching(watcher, directories[i])
                   ELSE watcher,
                   directories, i + 1)

\* AutomationManager.start_automation(watch_directories)
start_automation(directories) ==
    /\ start_calls' = start_calls + 1
    /\ IF automation_is_running
       THEN UNCHANGED <<automation_is_running, is_watching, watches, watch_directories,
                        batch_is_running, queue_threads>>
       ELSE /\ batch_start_processing_effect
            /\ LET watcher == WatchLoop([is_watching |-> is_watching, watches |-> watches],
                                        directories, 1)
               IN  /\ is_watching' = watcher.is_watching
                   /\ watches' = watcher.watches
            /\ automation_is_running' = TRUE
            /\ watch_directories' = directories
    /\ UNCHANGED <<objects, batch_tasks, batch_task_queue, executor, now, caller_blocked,
                   created_files, pending_files, scheduled>>
    /\ UNCHANGED OtherThanAutomation

Watched(path) == \E w \in watches : Under(w, path)

\* a file or directory appears in a directory; when the observer sees it,
\* on_created runs: directories and other files are ignored, a video file
\* gets a timer (_schedule_processing)
FileCreated(directory, name, is_directory, size) ==
    LET path == JoinPath(directory, name)
    IN  /\ automation_is_running
        /\ \A f \in created_files : f.path # path
        /\ created_files' = created_files \cup
               {[path |-> path, name |-> name, is_directory |-> is_directory, size |-> size]}
        /\ IF Watched(path) /\ ~is_directory /\ is_video_file(name)
           THEN /\ pending_files' = pending_files \cup {path}
                /\ scheduled' = scheduled \cup {path}
           ELSE UNCHANGED <<pending_files, scheduled>>
        /\ UNCHANGED <<batchVars, automation_is_running, is_watching, watches,
                       watch_directories, start_calls>>
        /\ UNCHANGED OtherThanAutomation

\* the timer of a path fires: _process_file adds the task when the file is
\* not empty, and the path leaves pending_files
TimerFires(path) ==
    /\ path \in pending_files
    /\ LET f == CHOOSE g \in created_files : g.path = path
       IN  IF f.size > 0
           THEN batch_add_task(f.name)
           ELSE UNCHANGED <<objects, batch_tasks, batch_task_queue>>
    /\ pending_files' = pending_files \ {path}
    /\ UNCHANGED <<batch_is_running, executor, queue_threads, now, caller_blocked>>
    /\ UNCHANGED <<automation_is_running, is_watching, watches, watch_directories,
                   start_calls, created_files, scheduled>>
    /\ UNCHANGED OtherThanAutomation

InitWatchIdle ==
    /\ automation_is_running = FALSE
    /\ is_watching = FALSE
    /\ watches = {}
    /\ watch_directories = <<>>
    /\ start_calls = 0
    /\ created_files = {}
    /\ pending_files = {}
    /\ scheduled = {}

----------------------------------------------------------------------------
(* Inputs of the adaptive configuration                                    *)

MaxCores == 40
MaxSizeGiB == 70

PieceSizeOverrides == {None, Some(0), Some(128 * KiB), Some(1024 * KiB)}
WorkerOverrides == {None, Some(0), Some(4), Some(21), Some(64)}

Configs ==
    [auto_optimize : BOOLEAN, piece_size : PieceSizeOverrides, max_workers : WorkerOverrides]

LogicalCounts == {1, 6, MaxCores}
CpuLevels == {Raises, 0, 49, 50, 80, 81}
LoadLevels == {Raises, Unsupported, 0, 8, 9, 8 * MaxCores + 1}
MemoryLevels == {Raises, 4 * GiBm - 1, 4 * GiBm, 32 * GiBm - 1, 32 * GiBm}

\* logical (multiprocessing.cpu_count()) only matters when the physical count
\* is not available; otherwise it is taken equal to the physical count
Hosts ==
    { h \in [physical : (1 .. MaxCores) \cup {0, Raises}, logical : 1 .. MaxCores,
             cpu : CpuLevels, load10 : LoadLevels, mem_mib : MemoryLevels] :
        IF h.physical >= 1 THEN h.logical = h.physical ELSE h.logical \in LogicalCounts }

RefHost == [physical |-> 4, logical |-> 4, cpu |-> 60, load10 |-> 0, mem_mib |-> 8 * GiBm]
RefSizeKiB == 700 * MiBk

TierBoundsKiB == {50 * MiBk, 500 * MiBk, 1 * GiBk, 4 * GiBk, 16 * GiBk, 64 * GiBk}

SizesKiB ==
    {0, 1} \cup { g * GiBk : g \in 0 .. MaxSizeGiB }
           \cup { t + d : t \in TierBoundsKiB, d \in {0 - 1, 0, 1} }

\* every host at the reference size, every size on the reference host
PlanInputs ==
    { <<h, RefSizeKiB>> : h \in Hosts } \cup { <<RefHost, s>> : s \in SizesKiB }

GenerateApis == {"callback_threads", "threads", "plain"}

InitEpisodesIdle ==
    /\ video_files = <<>>
    /\ episode_info = <<>>

InitPlan ==
    /\ config \in Configs
    /\ \E in \in PlanInputs : host = in[1] /\ content_kib = in[2]
    /\ generate_api \in GenerateApis
    /\ plan = NoPlan
    /\ InitEpisodesIdle
    /\ InitScanIdle
    /\ InitProgressIdle
    /\ InitQueueIdle
    /\ InitSelectIdle
    /\ InitBatchIdle
    /\ InitWatchIdle

NextPlan == create_torrent

SpecPlan == InitPlan /\ [][NextPlan]_vars

----------------------------------------------------------------------------
(* Properties of the adaptive configuration (SpecPlan)                     *)

WorkerRange == 1 .. 20

\* powers of two from 256 KiB to 16 MiB
PieceSizeRange == { 2 ^ k : k \in 18 .. 24 }

\* C1: with auto_optimize on, the worker count _get_optimal_workers returns
\* is within [1, 20], whatever the core count, utilization, load average and
\* memory size of the host.
C1_AutoWorkersInRange ==
    (plan.made /\ config.auto_optimize) => plan.workers \in WorkerRange

\* a plan computed on the largest host, idle, with 32 GiB: the count reaches 20
C1_Witness ==
    /\ plan.made /\ config.auto_optimize
    /\ host.physical = MaxCores /\ host.cpu = 0 /\ host.mem_mib = 32 * GiBm
    /\ plan.workers = 20

\* C2 as stated: the worker count of every plan is within [1, 20], also with
\* auto_optimize off and any caller-supplied max_workers.
C2_Original ==
    plan.made => plan.workers \in WorkerRange

\* C2 amended: the worker count of a plan, and the threads argument handed to
\* torrent.generate(), is within [1, 20] when auto_optimize is on, and when it
\* is off and the caller's max_workers is absent, 0, or itself within [1, 20].
C2_PlanWorkersInRange ==
    (/\ plan.made
     /\ \/ config.auto_optimize
        \/ ~Truthy(config.max_workers)
        \/ config.max_workers[1] \in WorkerRange)
    => /\ plan.workers \in WorkerRange
       /\ plan.threads # None => plan.threads[1] \in WorkerRange

\* auto_optimize off and no max_workers: the plan is handed over with 1 thread
C2_Witness ==
    /\ plan.made /\ ~config.auto_optimize /\ ~Truthy(config.max_workers)
    /\ plan.threads = Some(1)

\* the tier table of the claim: rows of lower bound (inclusive), upper bound
\* (exclusive, 0 for none) in KiB, and the chunk size in bytes
TierTable ==
    { [lo |-> 0,          hi |-> 50 * MiBk,  size |-> 256 * KiB],
      [lo |-> 50 * MiBk,  hi |-> 500 * MiBk, size |-> 1024 * KiB],
      [lo |-> 500 * MiBk, hi |-> 1 * GiBk,   size |-> 2 * 1024 * KiB],
      [lo |-> 1 * GiBk,   hi |-> 4 * GiBk,   size |-> 4 * 1024 * KiB],
      [lo |-> 4 * GiBk,   hi |-> 16 * GiBk,  size |-> 8 * 1024 * KiB],
      [lo |-> 16 * GiBk,  hi |-> 64 * GiBk,  size |-> 16 * 1024 * KiB],
      [lo |-> 64 * GiBk,  hi |-> 0,          size |-> 8 * 1024 * KiB] }

InTier(row, kib) == row.lo <= kib /\ (row.hi = 0 \/ kib < row.hi)

\* C3: with auto_optimize on, the chunk size is the one of the tier the total
\* size falls in, each boundary value belonging to the higher tier.
C3_TierTable ==
    (plan.made /\ config.auto_optimize) =>
        /\ \E row \in TierTable : InTier(row, plan.total_kib)
        /\ \A row \in TierTable :
              InTier(row, plan.total_kib) => plan.piece_size = row.size

\* exactly 64 GiB is planned with the 8 MiB of the last tier
C3_Witness ==
    /\ plan.made /\ config.auto_optimize
    /\ plan.total_kib = 64 * GiBk
    /\ plan.piece_size = 8 * 1024 * KiB

\* C4 as stated: the chunk size of every plan is 0 or a power of two between
\* 256 KiB and 16 MiB, also with auto_optimize off and any override.
C4_Original ==
    plan.made => plan.piece_size \in PieceSizeRange \cup {0}

\* C4 amended: the chunk size of a plan is 0 or a power of two between 256 KiB
\* and 16 MiB when auto_optimize is on, and when it is off and the caller's
\* override is absent, 0, or itself such a power of two.
C4_PieceSizeInRange ==
    (/\ plan.made
     /\ \/ config.auto_optimize
        \/ ~Truthy(config.piece_size)
        \/ config.piece_size[1] \in PieceSizeRange)
    => plan.piece_size \in PieceSizeRange \cup {0}

\* the largest chunk size, 16 MiB, is planned by the table
C4_Witness ==
    /\ plan.made /\ config.auto_optimize
    /\ plan.piece_size = 16 * 1024 * KiB

----------------------------------------------------------------------------
(* Inputs of the episode analysis                                          *)

MaxFiles == 3
MaxEpisode == 5

MKV == <<".", "m", "k", "v">>

\* names for the filename parser: a stem of one or two segments, each a marker,
\* a digit group and a closing text, followed by a video extension
SegmentPre ==
    { <<>>, <<"e">>, <<"E", "p">>, <<"S">>, <<"s", "e", "a", "s", "o", "n">>, <<"x">> }
SegmentNum == { <<>>, <<"0">>, <<"1", "2">>, <<"0", "0", "7">>, <<"1", "2", "3", "4">> }
SegmentPost == { <<JI_EPISODE>>, <<HUA>>, <<JI_SEASON>>, <<".", "m", "p", "4">> }

Segments ==
    ({ a \o n : a \in SegmentPre, n \in SegmentNum }
        \cup { <<DI>> \o n \o b : n \in SegmentNum, b \in SegmentPost }
        \cup { n \o b : n \in SegmentNum, b \in SegmentPost }) \ {<<>>}

ParserNames ==
    { s \o MKV : s \in Segments } \cup { s \o u \o MKV : s \in Segments, u \in Segments }

\* names for the range analysis: S<season>E<episode>, a name without numbers
\* and a name with a season only
SeasonEpisodeName(season, episode) ==
    <<"S">> \o DecStr(season) \o <<"E">> \o Pad02(episode) \o MKV

RangeNames ==
    { SeasonEpisodeName(1, e) : e \in 0 .. MaxEpisode }
        \cup { SeasonEpisodeName(2, e) : e \in {1, 3} }
        \cup { <<"x">> \o MKV, <<"S", "2">> \o MKV }

RECURSIVE SeqsUpTo(_, _)
SeqsUpTo(S, n) ==
    IF n = 0 THEN {<<>>}
    ELSE LET shorter == SeqsUpTo(S, n - 1)
         IN  shorter \cup { Append(q, x) : q \in { r \in shorter : Len(r) = n - 1 }, x \in S }

\* _scan_media_folders analyses a folder only when it holds a video file
Folders == ({ <<n>> : n \in ParserNames } \cup SeqsUpTo(RangeNames, MaxFiles)) \ {<<>>}

InitPlanIdle ==
    /\ config = [auto_optimize |-> TRUE, piece_size |-> None, max_workers |-> None]
    /\ host = RefHost
    /\ content_kib = RefSizeKiB
    /\ generate_api = "callback_threads"
    /\ plan = NoPlan

InitEpisodes ==
    /\ video_files \in Folders
    /\ episode_info = <<>>
    /\ InitPlanIdle
    /\ InitScanIdle
    /\ InitProgressIdle
    /\ InitQueueIdle
    /\ InitSelectIdle
    /\ InitBatchIdle
    /\ InitWatchIdle

NextEpisodes == AnalyzeEpisodes

SpecEpisodes == InitEpisodes /\ [][NextEpisodes]_vars

----------------------------------------------------------------------------
(* Properties of the episode analysis (SpecEpisodes)                       *)

Analysed == episode_info # <<>>
Info == episode_info[1]
Records == { Info.episodes[i] : i \in 1 .. Len(Info.episodes) }

\* reading a token back: [S<season> ]E<start>[-E<end>], numbers of two or
\* more digits
TokenBody(tok) ==
    IF tok # <<>> /\ tok[1] = "S"
    THEN SubSeq(tok, DigitRunEnd(tok, 2) + 2, Len(tok))
    ELSE tok
TokenSeason(tok) ==
    IF tok # <<>> /\ tok[1] = "S"
    THEN Some(IntOf(SubSeq(tok, 2, DigitRunEnd(tok, 2))))
    ELSE None
ReadToken(tok) ==
    LET body == TokenBody(tok)
        b1 == DigitRunEnd(body, 2)
        b2 == DigitRunEnd(body, b1 + 3)
        pair == b1 < Len(body)
    IN  [ok |-> /\ (tok[1] = "S" =>
                      /\ DigitRunEnd(tok, 2) >= 2
                      /\ LitAt(tok, DigitRunEnd(tok, 2) + 1, <<" ">>))
                /\ LitAt(body, 1, <<"E">>) /\ b1 >= 3
                /\ pair => (LitAt(body, b1 + 1, <<"-", "E">>) /\ b2 >= b1 + 4 /\ b2 = Len(body)),
         season |-> TokenSeason(tok),
         pair |-> pair,
         start |-> IntOf(SubSeq(body, 2, b1)),
         end |-> IF pair THEN IntOf(SubSeq(body, b1 + 3, b2)) ELSE IntOf(SubSeq(body, 2, b1))]

Seasons == { r.season_num : r \in Records }

\* the season a token speaks of: its prefix, or the only season of the folder
SeasonOfToken(d) ==
    IF d.season # None THEN d.season[1] ELSE CHOOSE s \in Seasons : TRUE

\* the episode numbers observed in a season: those of the records that have one
\* (a positive integer, as the data model has it; records whose digit group is
\* all zeros are the subject of C8)
Observed(season) ==
    { r.episode_num[1] : r \in { q \in Records :
        q.season_num = season /\ q.episode_num # None /\ q.episode_num[1] >= 1 } }

\* smallest and largest element; an empty set gives the empty interval 1 .. 0
SetMin(S) == IF S = {} THEN 1 ELSE CHOOSE x \in S : \A y \in S : x <= y
SetMax(S) == IF S = {} THEN 0 ELSE CHOOSE x \in S : \A y \in S : x >= y

RangesRead == [i \in 1 .. Len(Info.episode_ranges.ranges) |->
                    ReadToken(Info.episode_ranges.ranges[i])]
MissingRead == [i \in 1 .. Len(Info.episode_ranges.missing) |->
                    ReadToken(Info.episode_ranges.missing[i])]

\* C6: the range tokens are exactly the maximal runs of consecutive observed
\* episode numbers of each season: well formed, a start-end pair only for a
\* run longer than one, in increasing order with a gap between two ranges of a
\* season, every observed number in exactly one range and no other number in
\* any.
C6_RangesAreMaximalRuns ==
    Analysed =>
        LET R == RangesRead
            sn(i) == SeasonOfToken(R[i])
        IN  /\ \A i \in DOMAIN R :
                /\ R[i].ok
                /\ R[i].season = None => Cardinality(Seasons) = 1
                /\ sn(i) \in Seasons
                /\ R[i].start <= R[i].end
                /\ R[i].pair <=> R[i].start < R[i].end
                /\ \A n \in R[i].start .. R[i].end : n \in Observed(sn(i))
            /\ \A i, j \in DOMAIN R :
                i < j => \/ sn(i) < sn(j)
                         \/ sn(i) = sn(j) /\ R[i].end + 1 < R[j].start
            /\ \A s \in Seasons : \A n \in Observed(s) :
                Cardinality({ i \in DOMAIN R :
                    sn(i) = s /\ R[i].start <= n /\ n <= R[i].end }) = 1

\* episodes 1, 2 and 4 of one season give the ranges E01-E02 and E04
C6_Witness ==
    /\ Analysed
    /\ Seasons = {1} /\ Observed(1) = {1, 2, 4}
    /\ Info.episode_ranges.ranges =
          << <<"E", "0", "1", "-", "E", "0", "2">>, <<"E", "0", "4">> >>

\* C7: the missing tokens of a season are exactly the numbers strictly between
\* its smallest and its largest observed episode number that were not
\* observed, in ascending order.
C7_MissingAreGaps ==
    Analysed =>
        LET M == MissingRead
            sn(i) == SeasonOfToken(M[i])
            gaps(s) == { n \in SetMin(Observed(s)) .. SetMax(Observed(s)) :
                            n \notin Observed(s) }
        IN  /\ \A i \in DOMAIN M :
                /\ M[i].ok /\ ~M[i].pair
                /\ M[i].season = None => Cardinality(Seasons) = 1
                /\ sn(i) \in Seasons
                /\ M[i].start \in gaps(sn(i))
            /\ \A i, j \in DOMAIN M :
                i < j => \/ sn(i) < sn(j)
                         \/ sn(i) = sn(j) /\ M[i].start < M[j].start
            /\ \A s \in Seasons : \A n \in gaps(s) :
                \E i \in DOMAIN M : sn(i) = s /\ M[i].start = n

\* episodes 1 and 4 of one season: E02 and E03 are missing
C7_Witness ==
    /\ Analysed
    /\ Seasons = {1} /\ Observed(1) = {1, 4}
    /\ Info.episode_ranges.missing = << <<"E", "0", "2">>, <<"E", "0", "3">> >>

\* C8 as stated: the episode_num of every record is absent or a positive
\* integer and its season_num is at least 1, also when the matched digit
\* group is all zeros.
C8_Original ==
    Analysed =>
        \A r \in Records :
            /\ r.episode_num = None \/ r.episode_num[1] >= 1
            /\ r.season_num >= 1

\* the episode patterns in the order the claim gives them
ClaimedEpisodePatterns ==
    << Lit(<<"e">>, <<>>),
       Lit(<<"e", "p">>, <<>>),
       Lit(<<DI>>, <<JI_EPISODE>>),
       Lit(<<DI>>, <<HUA>>),
       [kind |-> "fallback", pre |-> <<>>, post |-> <<>>] >>

\* the same with <digits>.mp4 and <digits>.mkv before the fallback
AmendedEpisodePatterns ==
    << Lit(<<"e">>, <<>>),
       Lit(<<"e", "p">>, <<>>),
       Lit(<<DI>>, <<JI_EPISODE>>),
       Lit(<<DI>>, <<HUA>>),
       Lit(<<>>, <<".", "m", "p", "4">>),
       Lit(<<>>, <<".", "m", "k", "v">>),
       [kind |-> "fallback", pre |-> <<>>, post |-> <<>>] >>

ClaimedSeasonPatterns ==
    << Lit(<<"s">>, <<>>),
       Lit(<<"s", "e", "a", "s", "o", "n">>, <<>>),
       Lit(<<DI>>, <<JI_SEASON>>) >>

\* result is what the highest-priority pattern that matches somewhere in s
\* captures at its leftmost match; None when no pattern matches
FirstWins(s, patterns, result) ==
    \/ /\ result = None
       /\ \A k \in DOMAIN patterns : Search(s, patterns[k]) = None
    \/ \E k \in DOMAIN patterns :
          /\ Search(s, patterns[k]) # None
          /\ result = Search(s, patterns[k])
          /\ \A j \in 1 .. (k - 1) : Search(s, patterns[j]) = None

C10_SeasonIndependent ==
    Analysed =>
        \A r \in Records :
            LET s == Lower(Stem(r.filename))
                season == IF \A k \in DOMAIN ClaimedSeasonPatterns :
                                Search(s, ClaimedSeasonPatterns[k]) = None
                          THEN None ELSE Some(r.season_num)
            IN  /\ FirstWins(s, ClaimedSeasonPatterns, season)
                /\ season = None => r.season_num = 1
                /\ r.episode_num # None <=>
                      \E k \in DOMAIN AmendedEpisodePatterns :
                          Search(s, AmendedEpisodePatterns[k]) # None

\* "season1234": season 1234 is read although no episode pattern matches
C10_Witness ==
    /\ Analysed
    /\ \E r \in Records : r.episode_num = None /\ r.season_num = 1234

\* C11: in a folder where no file yields an episode number, has_episode_numbers
\* is false, ranges and missing are empty, and display is the decimal number of
\* video files of the folder followed by a space and the episode character.
C11_BareCount ==
    (Analysed /\ \A r \in Records : r.episode_num = None) =>
        LET d == Info.episode_ranges.display
            n == Len(d) - 2
        IN  /\ ~Info.has_episode_numbers
            /\ Info.episode_ranges.ranges = <<>>
            /\ Info.episode_ranges.missing = <<>>
            /\ n >= 1
            /\ \A k \in 1 .. n : IsDigit(d[k])
            /\ n > 1 => d[1] # "0"
            /\ IntOf(SubSeq(d, 1, n)) = Len(video_files)
            /\ SubSeq(d, n + 1, n + 2) = <<" ", JI_EPISODE>>

\* three files of two seasons, none with an episode number: "3" and the
\* episode character
C11_Witness ==
    /\ Analysed
    /\ Len(video_files) = 3
    /\ Seasons = {1, 2}
    /\ \A r \in Records : r.episode_num = None
    /\ Info.episode_ranges.display = <<"3", " ", JI_EPISODE>>

AllTokens == Info.episode_ranges.ranges \o Info.episode_ranges.missing

\* the tokens are in season-then-ascending-number order
TokensInOrder(read) ==
    \A i, j \in DOMAIN read :
        i < j => \/ SeasonOfToken(read[i]) < SeasonOfToken(read[j])
                 \/ /\ SeasonOfToken(read[i]) = SeasonOfToken(read[j])
                    /\ read[i].end < read[j].start

\* C12: when the records span more than one season every range and missing
\* token starts with "S<season> " (the season in plain decimal), when they span
\* one season no token has a prefix; and, for a folder with a range token,
\* display is the range tokens in season-then-ascending order joined by ", ",
\* followed by " (<missing marker>: <missing tokens joined by ", ">)", the
\* missing tokens in season-then-ascending order, exactly when there is a
\* missing token.
C12_PrefixAndDisplay ==
    Analysed =>
        LET er == Info.episode_ranges
        IN  /\ Cardinality(Seasons) > 1 =>
                \A i \in DOMAIN AllTokens :
                    LET tok == AllTokens[i]
                        d == ReadToken(tok)
                    IN  /\ d.ok /\ d.season # None /\ d.season[1] \in Seasons
                        /\ tok = <<"S">> \o DecStr(d.season[1]) \o <<" ">> \o TokenBody(tok)
                        /\ TokenBody(tok)[1] = "E"
            /\ Cardinality(Seasons) = 1 =>
                \A i \in DOMAIN AllTokens : AllTokens[i][1] = "E"
            /\ TokensInOrder(RangesRead)
            /\ TokensInOrder(MissingRead)
            /\ er.ranges # <<>> =>
                er.display =
                    Join(er.ranges, <<",", " ">>) \o
                    (IF er.missing = <<>> THEN <<>>
                     ELSE <<" ", "(", QUE, ":", " ">> \o Join(er.missing, <<",", " ">>) \o <<")">>)

\* season 1 with episode 1, season 2 with episodes 1 and 3:
\* "S1 E01, S2 E01, S2 E03 (<missing marker>: S2 E02)"
C12_Witness ==
    /\ Analysed
    /\ Seasons = {1, 2}
    /\ Observed(1) = {1} /\ Observed(2) = {1, 3}
    /\ Info.episode_ranges.display =
          <<"S", "1", " ", "E", "0", "1", ",", " ",
            "S", "2", " ", "E", "0", "1", ",", " ",
            "S", "2", " ", "E", "0", "3",
            " ", "(", QUE, ":", " ", "S", "2", " ", "E", "0", "2", ")">>

\* ranges, missing and (when there is a range token) display of two record
\* lists agree
SameRanges(a, b) ==
    /\ a.ranges = b.ranges
    /\ a.missing = b.missing
    /\ a.ranges # <<>> => a.display = b.display

\* C13: ranges, missing and the range-form display are unchanged when a record
\* repeating the (season, episode) pair of a present record is added, in front
\* or at the end, and when the records are reordered in any way.
C13_PairSetOnly ==
    Analysed =>
        LET eps == Info.episodes
            n == Len(eps)
        IN  /\ \A i \in 1 .. n :
                /\ SameRanges(Info.episode_ranges, analyze_episode_ranges(Append(eps, eps[i])))
                /\ SameRanges(Info.episode_ranges, analyze_episode_ranges(<<eps[i]>> \o eps))
            /\ \A p \in Permutations(1 .. n) :
                SameRanges(Info.episode_ranges,
                           analyze_episode_ranges([i \in 1 .. n |-> eps[p[i]]]))

\* episode 1 twice and episode 3: the ranges are E01 and E03, E02 is missing
C13_Witness ==
    /\ Analysed
    /\ Len(video_files) = 3
    /\ Seasons = {1} /\ Observed(1) = {1, 3}
    /\ \A r \in Records : r.episode_num # None
    /\ Info.episode_ranges.ranges = << <<"E", "0", "1">>, <<"E", "0", "3">> >>
    /\ Info.episode_ranges.missing = << <<"E", "0", "2">> >>

----------------------------------------------------------------------------
(* Inputs of the folder scan                                               *)

MaxChildren == 2
MaxRoots == 2

File(name, size_kib) == [name |-> name, is_file |-> TRUE, size_kib |-> size_kib]
SubDir(name) == [name |-> name, is_file |-> FALSE, size_kib |-> 0]

\* a sub-directory with the name of a video, two episodes, a text file
VideoEntries ==
    << SubDir(<<"e", "x", "t", "r", "a", "s">> \o MKV),
       File(SeasonEpisodeName(1, 1), 300),
       File(<<"E", "0", "2", ".", "M", "P", "4">>, 200),
       File(<<"r", "e", "a", "d", "m", "e", ".", "t", "x", "t">>, 1) >>
UpperCaseEntries == << File(<<"E", "0", "2", ".", "M", "P", "4">>, 200) >>
NoVideoEntries ==
    << File(<<"x", ".", "t", "x", "t">>, 1), SubDir(<<"c", "l", "i", "p", ".", "a", "v", "i">>) >>

ChildDir(name, entries, walk_raises) ==
    [name |-> name, is_dir |-> TRUE, walk_raises |-> walk_raises, entries |-> entries]
ChildFile(name) ==
    [name |-> name, is_dir |-> FALSE, walk_raises |-> FALSE, entries |-> <<>>]

NameShow == <<"S", "h", "o", "w">>
NameShowLower == <<"s", "h", "o", "w">>
NameAlpha == <<"a", "l", "p", "h", "a">>
NameBeta == <<"B", "e", "t", "a", ".", "S", "0", "1">>
NameFilm == <<"F", "i", "l", "m">>
\* the same episode number twice, a name without a number that two files in
\* different sub-directories have, a text file
RepeatEntries ==
    << File(<<"E", "0", "2">> \o MKV, 100),
       File(<<"e", "0", "2", ".", "m", "p", "4">>, 50),
       File(<<"m", "o", "v", "i", "e">> \o MKV, 7),
       File(<<"m", "o", "v", "i", "e">> \o MKV, 9),
       File(<<"n", "o", "t", "e", ".", "t", "x", "t">>, 1) >>

Children ==
    { ChildDir(NameShow, VideoEntries, FALSE),
      ChildDir(NameShowLower, UpperCaseEntries, FALSE),
      ChildDir(NameAlpha, VideoEntries, FALSE),
      ChildDir(NameAlpha, VideoEntries, TRUE),
      ChildDir(NameBeta, VideoEntries, FALSE),
      ChildDir(NameBeta, NoVideoEntries, FALSE),
      ChildFile(<<"m">> \o MKV) }

\* the entries of one directory have different names
Listings ==
    { l \in SeqsUpTo(Children, MaxChildren) :
        \A i, j \in 1 .. Len(l) : i # j => l[i].name # l[j].name }

ListingsB ==
    { <<>>,
      << ChildDir(NameShow, UpperCaseEntries, FALSE) >>,
      << ChildDir(NameFilm, RepeatEntries, FALSE) >>,
      << ChildDir(NameShowLower, VideoEntries, FALSE), ChildDir(NameAlpha, VideoEntries, FALSE) >> }

Disks ==
    { d \in [a : [readable : BOOLEAN, listing : Listings],
             b : [readable : BOOLEAN, listing : ListingsB]] :
        d.a.readable \/ d.b.readable }

RootSpellings ==
    { <<"/", "a">>, <<"/", "a", "/">>, <<"/", "x", "/", ".", ".", "/", "a">>,
      <<"/", "b">>, <<"/", "n">> }
RootLists == SeqsUpTo(RootSpellings, MaxRoots)
RefRoots == << <<"/", "a">>, <<"/", "b">> >>

PromptAnswers ==
    { <<>>, <<" ", " ">>, NameShowLower, <<"S", "H", "O", "W">>,
      <<"t", "h", "e", " ", "s", "h", "o", "w">>, <<"-">>, <<"a", ".", "s">>,
      <<" ", "a", "l", "p", "h", "a", " ">> }
RefAnswers == { <<>>, NameShowLower }

AliasRoots == << <<"/", "a">>, <<"/", "x", "/", ".", ".", "/", "a">> >>

RefDisks ==
    { d \in Disks :
        /\ d.a.readable /\ d.b.readable
        /\ d.a.listing = << ChildDir(NameShow, VideoEntries, FALSE),
                            ChildDir(NameAlpha, VideoEntries, FALSE) >> }

\* every readable disk under the reference roots with every answer; every
\* disk under the reference roots and under the alias roots; every root list
\* on the reference disks
ScanInputs ==
    { <<d, RefRoots, t>> : d \in { e \in Disks : e.a.readable /\ e.b.readable },
                           t \in PromptAnswers } \cup
    { <<d, r, t>> : d \in Disks, r \in {RefRoots, AliasRoots}, t \in RefAnswers } \cup
    { <<d, r, t>> : d \in RefDisks, r \in RootLists, t \in RefAnswers }

InitScan ==
    /\ \E in \in ScanInputs :
          fs = in[1] /\ media_directories = in[2] /\ search_input = in[3]
    /\ scan_outcome = NotScanned
    /\ InitPlanIdle
    /\ InitEpisodesIdle
    /\ InitProgressIdle
    /\ InitQueueIdle
    /\ InitSelectIdle
    /\ InitBatchIdle
    /\ InitWatchIdle

NextScan == scan_files

SpecScan == InitScan /\ [][NextScan]_vars

----------------------------------------------------------------------------
(* Properties of the folder scan (SpecScan)                                *)

Scanned == scan_outcome.status = "scanned"
Result == scan_outcome.media_folders
search_term == Strip(search_input)

\* the roots of the list that exist, as paths
RootPaths ==
    { PathOf(media_directories[r]) : r \in 1 .. Len(media_directories) } \
    { q \in { PathOf(media_directories[r]) : r \in 1 .. Len(media_directories) } :
        DirAt(q) = "none" }

\* the directory on disk a result entry stands for: the directory its parent
\* path leads to, and its name
DirectoryOf(folder) ==
    <<DirAt(SubSeq(folder.path, 1, Len(folder.path) - Len(folder.name) - 1)), folder.name>>

\* C14: the folder list a scan returns is in non-decreasing order of the
\* lowercased folder names (compared as strings), for every root list and
\* every search term.
C14_SortedByLowerName ==
    Scanned =>
        \A i \in 1 .. (Len(Result) - 1) :
            StrLE(Lower(Result[i].name), Lower(Result[i + 1].name))

\* "alpha" is listed before "Beta.S01" although "B" < "a"
C14_Witness ==
    /\ Scanned
    /\ Len(Result) >= 2
    /\ Result[1].name = NameAlpha /\ Result[2].name = NameBeta

\* the subtree of a child holds a file with a video extension, in any case
HasVideo(child) ==
    \E k \in 1 .. Len(child.entries) :
        /\ child.entries[k].is_file
        /\ Lower(Suffix(child.entries[k].name)) \in VIDEO_EXTENSIONS

\* the term is empty, or the lowercased name contains the lowercased term, or
\* it contains a word token of the lowercased term
TermAdmits(name) ==
    \/ search_term = <<>>
    \/ Contains(Lower(name), Lower(search_term))
    \/ \E word \in WordTokens(Lower(search_term)) : Contains(Lower(name), word)

InResult(item) == \E i \in 1 .. Len(Result) : Result[i].path = item

\* C15: a child directory of a scanned root whose walk succeeds is in the
\* result if and only if its subtree holds a video file (extension compared
\* case-insensitively) and the search term is empty, or contained in the
\* lowercased name, or has a word token contained in it; an entry of a root
\* that is a file, and a folder without a video file, is never in the result.
C15_Membership ==
    Scanned =>
        /\ \A q \in RootPaths : \A k \in 1 .. Len(fs[DirAt(q)].listing) :
              LET child == fs[DirAt(q)].listing[k]
                  item == q \o <<"/">> \o child.name
              IN  /\ (child.is_dir /\ ~child.walk_raises) =>
                        (InResult(item) <=> (HasVideo(child) /\ TermAdmits(child.name)))
                  /\ ~child.is_dir => ~InResult(item)
                  /\ ~HasVideo(child) => ~InResult(item)
        /\ \A i \in 1 .. Len(Result) :
              \E q \in RootPaths : \E k \in 1 .. Len(fs[DirAt(q)].listing) :
                  Result[i].path = q \o <<"/">> \o fs[DirAt(q)].listing[k].name

\* "the show" is not contained in "show" but its word "show" is: the folder
\* "Show" is listed, and "alpha", next to it on disk, is not
C15_Witness ==
    /\ Scanned
    /\ search_term = <<"t", "h", "e", " ", "s", "h", "o", "w">>
    /\ \E i \in 1 .. Len(Result) : Result[i].name = NameShow
    /\ \E k \in 1 .. Len(fs.a.listing) :
          fs.a.listing[k].name = NameAlpha /\ HasVideo(fs.a.listing[k])
    /\ \A i \in 1 .. Len(Result) : Result[i].name # NameAlpha

\* C16 as stated: no error of enumerating a root or of walking a child leaves
\* the scan, and the folders of every other subtree and root are returned.
C16_Original ==
    /\ scan_outcome.status # "raised"
    /\ Scanned =>
          \A q \in RootPaths :
              fs[DirAt(q)].readable =>
                  \A k \in 1 .. Len(fs[DirAt(q)].listing) :
                      LET child == fs[DirAt(q)].listing[k]
                      IN  (/\ child.is_dir /\ ~child.walk_raises
                           /\ HasVideo(child) /\ TermAdmits(child.name))
                          => InResult(q \o <<"/">> \o child.name)

\* C17 as stated: a child directory is in the result of one scan at most once,
\* also when the root list names one root twice.
C17_Original ==
    Scanned =>
        \A i, j \in 1 .. Len(Result) :
            DirectoryOf(Result[i]) = DirectoryOf(Result[j]) => i = j

\* the root lists in every order of the roots
RootOrders ==
    { [i \in 1 .. Len(media_directories) |-> media_directories[p[i]]] :
        p \in Permutations(1 .. Len(media_directories)) }

\* no directory is named by two different paths of the root list
OnePathEach ==
    \A q1, q2 \in RootPaths : DirAt(q1) = DirAt(q2) => q1 = q2

LowerNames(folders) == { Lower(folders[i].name) : i \in 1 .. Len(folders) }

ChildOf(folder) ==
    LET listing == fs[DirectoryOf(folder)[1]].listing
    IN  listing[CHOOSE k \in 1 .. Len(listing) : listing[k].name = folder.name]

\* the positions, among what the walk of a child yields, of the video files
VideoPositions(child) ==
    { k \in 1 .. Len(child.entries) :
        child.entries[k].is_file /\ Lower(Suffix(child.entries[k].name)) \in VIDEO_EXTENSIONS }

RECURSIVE SizeOfPositions(_, _)
SizeOfPositions(child, positions) ==
    IF positions = {} THEN 0
    ELSE LET k == CHOOSE x \in positions : TRUE
         IN  child.entries[k].size_kib + SizeOfPositions(child, positions \ {k})

\* C24: every folder of a scan result has one episode record per video file
\* found in it: episode_count and total_count are the number of video files,
\* files without episode number and files with a number already seen
\* included, each file name has as many records as files, and total_size is
\* the sum of the sizes of these files.
C24_OneRecordPerFile ==
    Scanned =>
        \A i \in 1 .. Len(Result) :
            LET folder == Result[i]
                child == ChildOf(folder)
                videos == VideoPositions(child)
                records == folder.episode_info.episodes
            IN  /\ folder.episode_count = Cardinality(videos)
                /\ folder.episode_info.total_count = Cardinality(videos)
                /\ Len(records) = Cardinality(videos)
                /\ \A k \in videos :
                      Cardinality({ j \in 1 .. Len(records) :
                                      records[j].filename = child.entries[k].name }) =
                      Cardinality({ x \in videos :
                                      child.entries[x].name = child.entries[k].name })
                /\ folder.total_size = SizeOfPositions(child, videos)

\* the folder "Film": E02.mkv and e02.mp4 share number 2, movie.mkv is there
\* twice and has no number: 4 records, 166 KiB
C24_Witness ==
    /\ Scanned
    /\ \E i \in 1 .. Len(Result) :
          /\ Result[i].name = NameFilm
          /\ Result[i].episode_count = 4
          /\ Result[i].episode_info.total_count = 4
          /\ Result[i].total_size = 166
          /\ \E j \in 1 .. 4 : Result[i].episode_info.episodes[j].episode_num = None
          /\ Cardinality({ j \in 1 .. 4 :
                Result[i].episode_info.episodes[j].episode_num = Some(2) }) = 2

----------------------------------------------------------------------------
(* Inputs of the progress callback                                         *)

MaxCallbacks == 4

\* piece counts: a single piece, a few, and one where a piece is less than
\* 1% and two pieces are exactly 1%
PieceTotals == {1, 3, 200}
PiecesDone(total) == { n \in {0, 1, 2, total - 1, total} : n >= 0 /\ n <= total }
\* time between the clock readings of two calls: none, half a second, a second
Elapses == {0, 5, 10}
\* time.time() when the hashing starts
StartClock == 20

InitProgress ==
    /\ pieces_total \in PieceTotals
    /\ clock = StartClock
    /\ last_update_time = 0
    /\ last_percent = 0
    /\ task_completed = 0
    /\ callbacks = <<>>
    /\ InitPlanIdle
    /\ InitEpisodesIdle
    /\ InitScanIdle
    /\ InitQueueIdle
    /\ InitSelectIdle
    /\ InitBatchIdle
    /\ InitWatchIdle

\* torrent.generate() calls back, with any count of finished pieces
Generate ==
    /\ Len(callbacks) < MaxCallbacks
    /\ \E elapsed \in Elapses, pieces_done \in PiecesDone(pieces_total) :
          progress_callback(clock + elapsed, pieces_done)

NextProgress == Generate

SpecProgress == InitProgress /\ [][NextProgress]_vars

----------------------------------------------------------------------------
(* Properties of the progress callback (SpecProgress)                      *)

\* what the task showed before call i
ShownBefore(i) == IF i = 1 THEN 0 ELSE callbacks[i - 1].shown
\* the counts of finished pieces did not decrease up to call i
NonDecreasingUpTo(i) ==
    \A k \in 2 .. i : callbacks[k].pieces_done >= callbacks[k - 1].pieces_done

\* C25: a callback that is not the final one is accepted only when at least
\* 1 second has passed since every earlier accepted callback; a callback with
\* pieces_done = pieces_total is never suppressed and leaves the task at
\* 100%; and as long as the counts of finished pieces do not decrease, the
\* percentage shown does not decrease.
C25_RateLimited ==
    /\ \A i, j \in 1 .. Len(callbacks) :
          (/\ i < j
           /\ callbacks[i].accepted /\ callbacks[j].accepted
           /\ callbacks[j].pieces_done < pieces_total)
          => callbacks[j].time - callbacks[i].time >= 10
    /\ \A i \in 1 .. Len(callbacks) :
          callbacks[i].pieces_done = pieces_total =>
              /\ callbacks[i].accepted
              /\ callbacks[i].shown = 100 * pieces_total
    /\ \A i \in 1 .. Len(callbacks) :
          NonDecreasingUpTo(i) => callbacks[i].shown >= ShownBefore(i)

\* 200 pieces: a call is accepted, the next one half a second later is
\* suppressed, and the final one, again half a second later, is accepted
\* less than a second after the first and shows 100%
C25_Witness ==
    /\ pieces_total = 200
    /\ Len(callbacks) >= 3
    /\ \E i \in 1 .. (Len(callbacks) - 2) :
          /\ callbacks[i].accepted /\ callbacks[i].pieces_done = 2
          /\ ~callbacks[i + 1].accepted
          /\ callbacks[i + 1].time = callbacks[i].time + 5
          /\ callbacks[i + 2].accepted
          /\ callbacks[i + 2].pieces_done = pieces_total
          /\ callbacks[i + 2].time < callbacks[i].time + 10
          /\ callbacks[i + 2].shown = 100 * pieces_total
          /\ task_completed = 100 * pieces_total

----------------------------------------------------------------------------
(* Inputs of the processing queue                                          *)

MaxTasks == 3

QueueFolders == { <<"/", "a", "/", "S", "h", "o", "w">>, <<"/", "b", "/", "F", "i", "l", "m">> }
OutputDirectories == { None, <<"/", "o", "u", "t">> }
TrackerLists == { <<>>, << <<"u", "d", "p", ":", "/", "/", "t">> >> }

InitQueue ==
    /\ task_queue = <<>>
    /\ output_directory \in OutputDirectories
    /\ trackers \in TrackerLists
    /\ run = NoRun
    /\ InitPlanIdle
    /\ InitEpisodesIdle
    /\ InitScanIdle
    /\ InitProgressIdle
    /\ InitSelectIdle
    /\ InitBatchIdle
    /\ InitWatchIdle

\* a folder of a scan result is put on the queue
AddFolder ==
    /\ Len(task_queue) < MaxTasks
    /\ \E folder \in QueueFolders : add_folder_to_queue(folder)

\* menu entry 3, the output directory being creatable or not
StartProcessing == \E mkdir_ok \in BOOLEAN : start_processing(mkdir_ok)

\* the torrent of the task is created, or creating it fails
EndTask == \E created \in BOOLEAN : FinishTask(created)

NextQueue ==
    \/ AddFolder
    \/ StartProcessing
    \/ BeginTask
    \/ EndTask
    \/ ReturnFromProcessing

SpecQueue == InitQueue /\ [][NextQueue]_vars

----------------------------------------------------------------------------
(* Properties of the processing queue (SpecQueue)                          *)

Finished == {"completed", "error"}
WasPending(i) == run.before[i].status = "pending"
CountOf(S) == Cardinality(S)

\* while the loop runs and when it has returned: the tasks that were not
\* pending at the start are as they were; those that were pending are taken
\* in queue order: the ones before position k are finished, the one at k is
\* pending or processing, the ones behind are pending
C26_State ==
    (run.pc \in {"loop", "returned"}) =>
        /\ Len(run.before) <= Len(task_queue)
        /\ \A i \in 1 .. Len(run.before) : ~WasPending(i) => task_queue[i] = run.before[i]
        /\ \A a, b \in 1 .. Len(run.pending_tasks) :
              a < b => run.pending_tasks[a] < run.pending_tasks[b]
        /\ { run.pending_tasks[a] : a \in 1 .. Len(run.pending_tasks) } =
              { i \in 1 .. Len(run.before) : WasPending(i) }
        /\ \A a \in 1 .. Len(run.pending_tasks) :
              LET status == task_queue[run.pending_tasks[a]].status
              IN  /\ a < run.k => status \in Finished
                  /\ a = run.k => status \in {"pending", "processing"}
                  /\ a > run.k => status = "pending"
        /\ run.success_count =
              CountOf({ i \in 1 .. Len(run.before) :
                          WasPending(i) /\ task_queue[i].status = "completed" })
        /\ run.error_count =
              CountOf({ i \in 1 .. Len(run.before) :
                          WasPending(i) /\ task_queue[i].status = "error" })

\* when start_processing has returned: no task is processing, none of the
\* tasks that were in the queue is pending, and the two counts add up to the
\* number of tasks that were pending
C26_Returned ==
    run.pc = "returned" =>
        /\ \A i \in 1 .. Len(task_queue) : task_queue[i].status # "processing"
        /\ \A i \in 1 .. Len(run.before) : task_queue[i].status \in Finished
        /\ run.success_count + run.error_count =
              CountOf({ i \in 1 .. Len(run.before) : WasPending(i) })

\* a status only changes from pending to processing and from processing to
\* completed or error
C26_Step ==
    \A i \in 1 .. Len(task_queue) :
        task_queue'[i].status # task_queue[i].status =>
            <<task_queue[i].status, task_queue'[i].status>> \in
                { <<"pending", "processing">>, <<"processing", "completed">>,
                  <<"processing", "error">> }

\* C26: with output directory and trackers set, start_processing changes the
\* status of exactly the tasks that were pending when it started, in queue
\* order, each from pending to processing to completed or error; a failure
\* does not stop the loop; when it returns no task is pending or processing,
\* the success and error counts add up to the number of tasks that were
\* pending, and the tasks that were completed or in error are unchanged.
C26_ProcessesPending == [](C26_State /\ C26_Returned) /\ [][C26_Step]_vars

\* a run over a queue holding a completed task and two pending ones has
\* returned: the first pending task failed, the one behind it was completed
C26_Witness ==
    /\ run.pc = "returned"
    /\ Len(run.before) = 3
    /\ run.before[1].status = "completed" /\ task_queue[1] = run.before[1]
    /\ WasPending(2) /\ task_queue[2].status = "error"
    /\ WasPending(3) /\ task_queue[3].status = "completed"
    /\ run.success_count = 1 /\ run.error_count = 1

----------------------------------------------------------------------------
(* Inputs of the batch selection                                           *)

MaxSelectionLen == 4
MaxFolders == 3

SelectionChars == {"0", "1", "2", ",", "-", " ", "x"}
Selections == SeqsUpTo(SelectionChars, MaxSelectionLen)
RefSelection == <<"1", "-", "2">>

FolderPath(i) == <<"/", "a", "/", "f">> \o DecStr(i)
\* scan_files calls the selection only with a folder list that is not empty
MediaFolderLists == { [i \in 1 .. n |-> FolderPath(i)] : n \in 1 .. MaxFolders }

\* every answer on every folder list, confirmed; the reference answer declined
SelectInputs ==
    { <<l, t, TRUE>> : l \in MediaFolderLists, t \in Selections } \cup
    { <<l, RefSelection, FALSE>> : l \in MediaFolderLists }

InitSelect ==
    /\ \E in \in SelectInputs :
          media_folders = in[1] /\ selection = in[2] /\ confirmed = in[3]
    /\ select_outcome = NotSelected
    /\ task_queue = <<>>
    /\ output_directory = None
    /\ trackers = <<>>
    /\ run = NoRun
    /\ InitPlanIdle
    /\ InitEpisodesIdle
    /\ InitScanIdle
    /\ InitProgressIdle
    /\ InitBatchIdle
    /\ InitWatchIdle

NextSelect == batch_select_folders

SpecSelect == InitSelect /\ [][NextSelect]_vars

----------------------------------------------------------------------------
(* Properties of the batch selection (SpecSelect)                          *)

Parsed == select_outcome.status \in {"invalid", "raised", "declined", "added"}
Indices == select_outcome.selected_indices

\* a part of the selection is a number, or two numbers with "-" in between
WellFormedPart(part) ==
    \/ ParseInt(part) # None
    \/ /\ Len(Split(part, "-")) = 2
       /\ ParseInt(Split(part, "-")[1]) # None
       /\ ParseInt(Split(part, "-")[2]) # None
WellFormed(text) ==
    \A k \in 1 .. Len(Split(text, ",")) : WellFormedPart(Split(text, ",")[k])

\* C27 as stated: for every selection and every folder count n the list
\* _parse_selection returns is sorted, without duplicates, and holds only
\* indices of [0, n), also for numbers and range bounds outside 1..n; a
\* malformed selection gives the empty list.
C27_Original ==
    Parsed =>
        /\ \A a, b \in 1 .. Len(Indices) : a < b => Indices[a] < Indices[b]
        /\ \A a \in 1 .. Len(Indices) :
              0 <= Indices[a] /\ Indices[a] < Len(media_folders)
        /\ ~WellFormed(selection) => Indices = <<>>

----------------------------------------------------------------------------
(* Properties of the input checks and of the host readings                 *)

\* C19 as stated: an empty root list, and a chunk size override of 0 with
\* auto_optimize off, end in an error: no scan result and no plan comes of it.
C19_Original ==
    /\ media_directories = <<>> =>
          scan_outcome.status \in {"idle", "no_directories"}
    /\ (~config.auto_optimize /\ config.piece_size = Some(0)) => ~plan.made

\* every reading that fails replaced by its default, the others as read
DefaultedHost(h) ==
    [physical |-> IF h.physical = Raises \/ h.physical = 0 THEN h.logical ELSE h.physical,
     logical |-> h.logical,
     cpu |-> IF h.cpu = Raises THEN 0 ELSE h.cpu,
     load10 |-> IF h.load10 = Raises \/ h.load10 = Unsupported THEN 0 ELSE h.load10,
     mem_mib |-> IF h.mem_mib = Raises THEN 0 ELSE h.mem_mib]

\* C20 as stated: the worker count is the one computed with every unreadable
\* metric at its default (physical = logical cores, load 0, utilization 0,
\* memory 0) and every other metric as read.
C20_Original ==
    (plan.made /\ config.auto_optimize) =>
        plan.workers = AutoWorkers(DefaultedHost(host))

----------------------------------------------------------------------------
(* Properties of the steps of the worker-count selection (SpecPlan)        *)

\* the readings of the host are all available
ReadingsOk(h) == h.cpu # Raises /\ h.load10 # Raises /\ h.mem_mib # Raises
\* the load average as read, in tenths
LoadRead10(h) == IF h.load10 = Unsupported THEN 0 ELSE h.load10
BaseOf(h) == BaseWorkers(PhysicalCores(h))
\* the value of optimal_workers when the memory step begins
AfterUtilization(h) ==
    LoadAdjust(BaseOf(h), CpuPercent(h), LoadAvg10(h), PhysicalCores(h))
\* total memory from 4 GiB up to, not including, 32 GiB: the memory step
\* changes nothing
MemoryBetween(h) == h.mem_mib >= 4 * GiBm /\ h.mem_mib < 32 * GiBm

\* C21 as stated: with utilization below 50% the value after the utilization
\* step is the core-count base value plus 2 for every physical core count,
\* the final clamp to 20 being the only limit: with memory between 4 and
\* 32 GiB the plan has min(20, base + 2) workers.
C21_Original ==
    (plan.made /\ config.auto_optimize /\ ReadingsOk(host) /\ host.cpu < 50) =>
        /\ AfterUtilization(host) = BaseOf(host) + 2
        /\ MemoryBetween(host) => plan.workers = Min(20, BaseOf(host) + 2)

\* the value is halved on this host: utilization not below 50%, and either
\* utilization above 80% or the load average above 0.8 times the cores
HalvingCase(h) ==
    /\ h.cpu >= 50
    /\ h.cpu > 80 \/ LoadRead10(h) > PhysicalCores(h) * 8

\* C22: the value is halved (integer division, not below 2) exactly when
\* utilization is not below 50% and utilization is above 80% or the load
\* average above 0.8 times the physical cores; below 50% it is never halved,
\* whatever the load; from 50% to 80% with low load it is the base value.
\* With memory between 4 and 32 GiB the plan has that number of workers.
C22_HalvedOnlyWhenBusy ==
    (plan.made /\ config.auto_optimize /\ ReadingsOk(host)) =>
        LET base == BaseOf(host)
            halved == Max(2, base \div 2)
        IN  /\ AfterUtilization(host) = halved <=> HalvingCase(host)
            /\ host.cpu < 50 => AfterUtilization(host) > halved
            /\ (host.cpu >= 50 /\ ~HalvingCase(host)) => AfterUtilization(host) = base
            /\ MemoryBetween(host) =>
                  /\ plan.workers = AfterUtilization(host)
                  /\ plan.workers = halved <=> HalvingCase(host)

\* 4 cores at 49% utilization under a load of more than 0.8 per core: the
\* base value 5 is raised to 7, not halved
C22_Witness ==
    /\ plan.made /\ config.auto_optimize /\ ReadingsOk(host)
    /\ host.physical = 4 /\ host.cpu = 49 /\ host.load10 > 4 * 8
    /\ MemoryBetween(host)
    /\ plan.workers = 7

\* C23: with less than 4 GiB of memory the worker count is at most 4 (the
\* value after the utilization step capped at 4); with 32 GiB or more it is
\* min(20, value after the utilization step + 4); in between it is the value
\* after the utilization step, up to the final clamp.
C23_MemoryStep ==
    (plan.made /\ config.auto_optimize /\ ReadingsOk(host)) =>
        LET w == AfterUtilization(host)
        IN  /\ host.mem_mib < 4 * GiBm =>
                  plan.workers <= 4 /\ plan.workers = Min(w, 4)
            /\ host.mem_mib >= 32 * GiBm => plan.workers = Min(20, w + 4)
            /\ MemoryBetween(host) => plan.workers = Min(20, w)

\* exactly 32 GiB on 4 cores at 50% utilization: 5 workers become 9
C23_Witness ==
    /\ plan.made /\ config.auto_optimize /\ ReadingsOk(host)
    /\ host.physical = 4 /\ host.cpu = 50 /\ host.load10 = 0
    /\ host.mem_mib = 32 * GiBm
    /\ plan.workers = 9

----------------------------------------------------------------------------
(* Inputs of the batch processor                                           *)

MaxAdds == 3
MaxSecond == 1
MaxThreads == 2

FileNames == { <<"a", ".", "m", "k", "v">>, <<"b", ".", "m", "k", "v">> }

InitBatch ==
    /\ InitBatchIdle
    /\ InitWatchIdle
    /\ InitPlanIdle
    /\ InitEpisodesIdle
    /\ InitScanIdle
    /\ InitProgressIdle
    /\ InitQueueIdle
    /\ InitSelectIdle

AddTask ==
    /\ Len(objects) < MaxAdds
    /\ \E file_name \in FileNames : add_task(file_name)

TimePasses == now < MaxSecond /\ Tick

StartBatch ==
    /\ queue_threads.check + queue_threads.get < MaxThreads
    /\ batch_start_processing

\* the work of a pool thread ends, with or without an exception
EndWork == \E k \in 1 .. max_workers : \E succeeded \in BOOLEAN : WorkerEnds(k, succeeded)

NextBatch ==
    \/ AddTask
    \/ TimePasses
    \/ StartBatch
    \/ batch_stop_processing
    \/ ShutdownReturns
    \/ ProcessQueueCheck
    \/ ProcessQueueGet
    \/ ProcessQueueTimeout
    \/ WorkerBegins
    \/ EndWork

SpecBatch == InitBatch /\ [][NextBatch]_vars

\* the queue threads and the pool threads are scheduled fairly, every
\* _process_single_task ends, and a shutdown that can return does
SpecBatchFair ==
    /\ SpecBatch
    /\ WF_vars(ProcessQueueCheck)
    /\ WF_vars(ProcessQueueGet)
    /\ WF_vars(ProcessQueueTimeout)
    /\ WF_vars(WorkerBegins)
    /\ WF_vars(EndWork)
    /\ WF_vars(ShutdownReturns)

----------------------------------------------------------------------------
(* Properties of the batch processor (SpecBatch, SpecBatchFair)            *)

Added(o) == o \in DOMAIN objects
Settled(o) == Added(o) /\ objects[o].status \in {"COMPLETED", "ERROR"}

\* C28 as stated: under fair scheduling of the queue thread and the worker
\* pool every task added with add_task eventually reaches COMPLETED or ERROR
\* while the processor is running, also a task added after a stop_processing
\* followed by a new start_processing.
C28_Original ==
    \A o \in 1 .. MaxAdds :
        (Added(o) /\ batch_is_running) ~> (Settled(o) \/ ~batch_is_running)

LegalMove(before, after) ==
    \/ after = before
    \/ before = "PENDING" /\ after = "PROCESSING"
    \/ before = "PROCESSING" /\ after \in {"COMPLETED", "ERROR"}

\* C29 as stated: every add_task call creates a distinct task that is
\* processed exactly once: after n calls the task table holds n tasks, also
\* for two files of the same name added within the same second, and a status
\* only moves PENDING -> PROCESSING -> COMPLETED or ERROR and never leaves
\* COMPLETED or ERROR.
C29_Original ==
    /\ [](/\ Cardinality(DOMAIN batch_tasks) = Len(objects)
          /\ \A o \in DOMAIN objects : objects[o].starts <= 1)
    /\ [][\A o \in DOMAIN objects : LegalMove(objects[o].status, objects'[o].status)]_vars

----------------------------------------------------------------------------
(* Inputs of the automation                                                *)

MaxWatch == 2
MaxCreated == 2
MaxStartCalls == 2

WatchCandidates == {DirW1, DirW2, DirSub, DirMissing}

RECURSIVE ListsOver(_, _)
ListsOver(S, n) ==
    IF n = 0
    THEN { <<>> }
    ELSE ListsOver(S, n - 1) \cup
         { Append(l, x) : l \in { m \in ListsOver(S, n - 1) : Len(m) = n - 1 }, x \in S }

WatchLists == ListsOver(WatchCandidates, MaxWatch)

NameVideo == <<"v", ".", "M", "k", "v">>
NameText == <<"n", ".", "t", "x", "t">>
NameDir == <<"d", ".", "m", "k", "v">>

\* what can appear in a directory: a video file, an empty one, another file,
\* a directory named like a video
CreatedKinds ==
    { [name |-> NameVideo, is_directory |-> FALSE, size |-> 5],
      [name |-> NameVideo, is_directory |-> FALSE, size |-> 0],
      [name |-> NameText, is_directory |-> FALSE, size |-> 5],
      [name |-> NameDir, is_directory |-> TRUE, size |-> 0] }

InitAutomation ==
    /\ InitWatchIdle
    /\ InitBatchIdle
    /\ InitPlanIdle
    /\ InitEpisodesIdle
    /\ InitScanIdle
    /\ InitProgressIdle
    /\ InitQueueIdle
    /\ InitSelectIdle

StartAutomation ==
    /\ start_calls < MaxStartCalls
    /\ \E directories \in WatchLists : start_automation(directories)

CreateFile ==
    /\ Cardinality(created_files) < MaxCreated
    /\ \E directory \in ExistingDirectories : \E kind \in CreatedKinds :
          FileCreated(directory, kind.name, kind.is_directory, kind.size)

Timer == \E path \in pending_files : TimerFires(path)

NextAutomation ==
    \/ StartAutomation
    \/ CreateFile
    \/ Timer
    \/ ProcessQueueCheck
    \/ ProcessQueueGet
    \/ ProcessQueueTimeout
    \/ WorkerBegins
    \/ EndWork

SpecAutomation == InitAutomation /\ [][NextAutomation]_vars

----------------------------------------------------------------------------
(* Properties of the automation (SpecAutomation)                           *)

Listed(directory) ==
    \E i \in 1 .. Len(watch_directories) : watch_directories[i] = directory

BeingWatched(directory) ==
    directory \in watches \/ \E w \in watches : Under(w, directory)

\* C30 as stated: after start_automation(watch_directories) every directory
\* of the list that exists is being watched, so that a video file created in
\* any of them is scheduled for processing; start_automation called again
\* while running changes nothing.
C30_Original ==
    /\ [](automation_is_running =>
            /\ \A d \in ExistingDirectories : Listed(d) => BeingWatched(d)
            /\ \A f \in created_files :
                  (/\ ~f.is_directory
                   /\ is_video_file(f.name)
                   /\ \E d \in ExistingDirectories :
                         Listed(d) /\ f.path = JoinPath(d, f.name))
                  => f.path \in scheduled)
    /\ [][(automation_is_running /\ start_calls' # start_calls) =>
             UNCHANGED <<batchVars, automation_is_running, is_watching, watches,
                         watch_directories, created_files, pending_files, scheduled>>]_vars

====
